---- MODULE Spec2Model ----
(***************************************************************************)
(* A model of open-psarc's PsarcFile (src/src/psarc_file.cpp): one         *)
(* PsarcFile object over one archive file on disk.  The archive is a       *)
(* sequence of bytes (0..255); the object's fields are the variables; the  *)
(* public operations are the actions.  Exceptions are modelled as result   *)
(* records: exc = "none" or the C++ exception type, msg the message.       *)
(***************************************************************************)
EXTENDS Integers, Sequences, FiniteSets, TLC

VARIABLES
    disk,          \* the bytes of the archive file at m_file_path
    m_file,        \* std::unique_ptr<std::ifstream>: NoFile or a stream record
    m_header,      \* Header
    m_entries,     \* std::vector<FileEntry>
    m_z_lengths,   \* std::vector<uint16_t>
    m_file_map,    \* std::unordered_map<std::string, int>
    m_is_open,     \* bool
    ret,           \* what the last public call did: its arguments and outcome
    parser,        \* one call of SngParser::Parse: its buffer and its outcome
    writer,        \* one call of SngXmlWriter::Write: its arguments and the document
    converter,     \* one call of PsarcFile::ConvertSng: the archive it sees, its outcome
    threads        \* the calls of ExtractFile in flight on the object, one per thread

vars ==
    <<disk, m_file, m_header, m_entries, m_z_lengths, m_file_map, m_is_open, ret,
      parser, writer, converter, threads>>

\* what the operations of one PsarcFile on one thread leave alone
others == <<parser, writer, converter, threads>>

\* the value of a variable that takes no part in a specification
Unused == <<>>

(***************************************************************************)
(* Sequence helpers.                                                       *)
(***************************************************************************)
Min(a, b) == IF a < b THEN a ELSE b

Max(a, b) == IF a > b THEN a ELSE b

\* s[from+1 .. from+n] for a 0-based offset, cut at the end of s
Slice(s, from, n) == SubSeq(s, from + 1, Min(Len(s), from + n))

Drop(s, n) == SubSeq(s, n + 1, Len(s))

Take(s, n) == SubSeq(s, 1, Min(n, Len(s)))

RECURSIVE Flatten(_)
Flatten(ss) == IF ss = <<>> THEN <<>> ELSE Head(ss) \o Flatten(Tail(ss))

RECURSIVE SumSeq(_)
SumSeq(s) == IF s = <<>> THEN 0 ELSE Head(s) + SumSeq(Tail(s))

Range(s) == {s[i] : i \in 1..Len(s)}

\* std::string::find(needle) != npos
Contains(s, needle) ==
    \E i \in 0..(Len(s) - Len(needle)) : SubSeq(s, i + 1, i + Len(needle)) = needle

\* std::string::ends_with(suffix)
EndsWith(s, suffix) ==
    /\ Len(s) >= Len(suffix)
    /\ SubSeq(s, Len(s) - Len(suffix) + 1, Len(s)) = suffix

(***************************************************************************)
(* Constants of the source.                                                *)
(***************************************************************************)
g_psarc_magic == 1347633490

g_sng_magic == 74

g_toc_encrypted_flag == 4

g_sng_compressed_flag == 1

g_psarc_iv == <<233, 21, 170, 1, 143, 239, 113, 252, 80, 129, 50, 228, 187, 76, 235, 66>>

NamesBlockBin == <<78, 97, 109, 101, 115, 66, 108, 111, 99, 107, 46, 98, 105, 110>>

SngDir == <<115, 111, 110, 103, 115, 47, 98, 105, 110, 47, 103, 101, 110, 101, 114, 105, 99, 47>>

SngExt == <<46, 115, 110, 103>>

CompZlib == <<122, 108, 105, 98>>

CompLzma == <<108, 122, 109, 97>>

\* " \t\r\n"
TrimChars == {32, 9, 13, 10}

LF == 10

(***************************************************************************)
(* Fixed-width integer reads (offsets are 0-based, as data + pos).         *)
(* TLC's integers are 32-bit signed: the archives of Init keep the top     *)
(* byte of every 32-bit field below 128.                                   *)
(***************************************************************************)
ReadLE32(data, p) ==
    data[p + 1] + data[p + 2] * 256 + data[p + 3] * 65536 + data[p + 4] * 16777216

ReadBE16(data, p) == data[p + 1] * 256 + data[p + 2]

ReadBE32(data, p) ==
    data[p + 1] * 16777216 + data[p + 2] * 65536 + data[p + 3] * 256 + data[p + 4]

\* a - b in uint32_t arithmetic, as the pair <<high 16 bits, low 16 bits>>
\* (2^32 + a - b does not fit TLC's integers); a, b < 2^31
SubU32(a, b) ==
    IF a >= b
    THEN <<(a - b) \div 65536, (a - b) % 65536>>
    ELSE <<65535 - ((b - a - 1) \div 65536), 65535 - ((b - a - 1) % 65536)>>

(***************************************************************************)
(* std::ifstream over disk: position, eofbit, failbit, gcount.             *)
(***************************************************************************)
\* m_file == nullptr
NoFile == [null |-> TRUE, open |-> FALSE, pos |-> 0, eof |-> FALSE, fail |-> FALSE, gcount |-> 0]

\* std::make_unique<std::ifstream>(m_file_path, std::ios::binary)
NewStream ==
    [null |-> FALSE, open |-> TRUE, pos |-> 0, eof |-> FALSE, fail |-> FALSE, gcount |-> 0]

\* the same when the file cannot be opened: is_open() is false, failbit is set
FailedStream == [NewStream EXCEPT !.open = FALSE, !.fail = TRUE]

\* istream::seekg(off): clears eofbit, then does nothing when fail() is set
Seekg(s, off) ==
    IF s.fail THEN [s EXCEPT !.eof = FALSE]
    ELSE [s EXCEPT !.eof = FALSE, !.pos = off]

\* istream::read(buf, n): <<stream after, bytes read>>.  When the stream is not
\* good() the sentry sets failbit and nothing is read; a short read sets
\* eofbit | failbit.
StreamRead(s, d, n) ==
    IF s.eof \/ s.fail
    THEN <<[s EXCEPT !.fail = TRUE, !.gcount = 0], <<>>>>
    ELSE LET avail == Max(0, Len(d) - s.pos)
             k     == Min(n, avail)
         IN <<[s EXCEPT !.pos = s.pos + k, !.gcount = k,
                        !.eof = (k < n), !.fail = (k < n)],
              Slice(d, s.pos, k)>>

Ok(s, data) == [exc |-> "none", msg |-> "", s |-> s, data |-> data]

Throw(msg, s) == [exc |-> "PsarcException", msg |-> msg, s |-> s, data |-> <<>>]

\* PsarcFile::ReadBytes(dest, count) with count < 2^16
ReadBytes(s, d, count) ==
    LET Checked(r) ==
            IF (r[1].eof \/ r[1].fail) /\ ~r[1].eof
            THEN Throw("Failed to read from file", r[1])
            ELSE IF r[1].gcount # count
            THEN Throw("Unexpected end of file", r[1])
            ELSE Ok(r[1], r[2])
    IN Checked(StreamRead(s, d, count))

\* ReadBytes(dest, count) for a count given as <<high, low>> 16-bit halves
ReadBytesU32(s, d, count) ==
    IF count[1] = 0 THEN ReadBytes(s, d, count[2])
    ELSE LET Checked(r) ==
                 IF (r[1].eof \/ r[1].fail) /\ ~r[1].eof
                 THEN Throw("Failed to read from file", r[1])
                 ELSE Throw("Unexpected end of file", r[1])
         IN Checked(StreamRead(s, d, Len(d) + 1))

(***************************************************************************)
(* PsarcFile::ReadHeader.                                                  *)
(***************************************************************************)
Header0 ==
    [magic |-> 0, version_major |-> 0, version_minor |-> 0,
     compression_method |-> <<0, 0, 0, 0>>, toc_length |-> 0, toc_entry_size |-> 0,
     num_files |-> 0, block_size |-> 0, archive_flags |-> 0]

\* the header fields after the magic, in the order ReadHeader reads them
HeaderFieldWidth == <<2, 2, 4, 4, 4, 4, 4, 4>>

SetHeaderField(h, k, data) ==
    CASE k = 1 -> [h EXCEPT !.version_major = ReadBE16(data, 0)]
      [] k = 2 -> [h EXCEPT !.version_minor = ReadBE16(data, 0)]
      [] k = 3 -> [h EXCEPT !.compression_method = data]
      [] k = 4 -> [h EXCEPT !.toc_length = ReadBE32(data, 0)]
      [] k = 5 -> [h EXCEPT !.toc_entry_size = ReadBE32(data, 0)]
      [] k = 6 -> [h EXCEPT !.num_files = ReadBE32(data, 0)]
      [] k = 7 -> [h EXCEPT !.block_size = ReadBE32(data, 0)]
      [] OTHER -> [h EXCEPT !.archive_flags = ReadBE32(data, 0)]

\* the reads of version_major .. archive_flags, one ReadBytes each
RECURSIVE ReadHeaderFields(_, _, _, _)
ReadHeaderFields(s, d, h, k) ==
    IF k > Len(HeaderFieldWidth) THEN [exc |-> "none", msg |-> "", s |-> s, h |-> h]
    ELSE LET Field(r) ==
                 IF r.exc # "none" THEN [exc |-> r.exc, msg |-> r.msg, s |-> r.s, h |-> h]
                 ELSE ReadHeaderFields(r.s, d, SetHeaderField(h, k, r.data), k + 1)
         IN Field(ReadBytes(s, d, HeaderFieldWidth[k]))

\* a faulty version check: the minor version is not looked at
UnsupportedMajor(h) == h.version_major # 1

\* m_header.version_major != 1 || m_header.version_minor != 4
UnsupportedVersion(h) == h.version_major # 1 \/ h.version_minor # 4

ReadHeader(s0, d, h0) ==
    LET Version(f) ==
            IF f.exc # "none" THEN f
            ELSE IF UnsupportedVersion(f.h)
            THEN [f EXCEPT !.exc = "PsarcException", !.msg = "Unsupported PSARC version"]
            ELSE f
        Magic(s, h1) ==
            IF h1.magic # g_psarc_magic
            THEN [exc |-> "PsarcException", msg |-> "Invalid PSARC file: wrong magic number",
                  s |-> s, h |-> h1]
            ELSE Version(ReadHeaderFields(s, d, h1, 1))
        Start(r) ==
            IF r.exc # "none" THEN [exc |-> r.exc, msg |-> r.msg, s |-> r.s, h |-> h0]
            ELSE Magic(r.s, [h0 EXCEPT !.magic = ReadBE32(r.data, 0)])
    IN Start(ReadBytes(Seekg(s0, 0), d, 4))

(***************************************************************************)
(* zlib and liblzma.  inflate() is modelled on the streams made of one     *)
(* final stored deflate block (BFINAL = 1, BTYPE = 00, LEN, NLEN, LEN      *)
(* literal bytes), bare or in a zlib wrapper (CMF, FLG, ..., Adler-32);    *)
(* every other input is rejected, and the archives of Init hold no other   *)
(* valid stream (no Huffman block, no non-final block, no gzip member).    *)
(***************************************************************************)
MAX_WBITS == 15

TruncDiv(a, b) == IF a >= 0 THEN a \div b ELSE -((-a) \div b)

RECURSIVE AdlerB(_, _)
\* the sum of the running values of Adler-32's low word over s, from a
AdlerB(s, a) == IF s = <<>> THEN 0
                ELSE LET a1 == (a + Head(s)) % 65521 IN (a1 + AdlerB(Tail(s), a1)) % 65521

\* the four big-endian bytes of adler32(s)
Adler32(s) ==
    LET a == (1 + SumSeq(s)) % 65521
        b == AdlerB(s, 1)
    IN <<b \div 256, b % 256, a \div 256, a % 256>>

\* one final stored block at offset p: [end, out]; end = inflate returned
\* Z_STREAM_END having written out (at most avail_out bytes)
InflateStored(data, p, avail_out) ==
    IF Len(data) < p + 5 \/ data[p + 1] % 8 # 1 THEN [end |-> FALSE, out |-> <<>>, next |-> p]
    ELSE LET len  == data[p + 2] + 256 * data[p + 3]
             nlen == data[p + 4] + 256 * data[p + 5]
         IN IF len + nlen # 65535 \/ Len(data) < p + 5 + len \/ len > avail_out
            THEN [end |-> FALSE, out |-> <<>>, next |-> p]
            ELSE [end |-> TRUE, out |-> Slice(data, p + 5, len), next |-> p + 5 + len]

\* a zlib stream: CM = 8, CINFO <= 7, FCHECK, no FDICT, the block, the Adler-32
InflateZlib(data, avail_out) ==
    IF \/ Len(data) < 2
       \/ data[1] % 16 # 8 \/ data[1] \div 16 > 7
       \/ (data[1] * 256 + data[2]) % 31 # 0
       \/ (data[2] \div 32) % 2 # 0
    THEN [end |-> FALSE, out |-> <<>>]
    ELSE LET Trailer(b) ==
                 IF b.end /\ Slice(data, b.next, 4) = Adler32(b.out)
                 THEN [end |-> TRUE, out |-> b.out]
                 ELSE [end |-> FALSE, out |-> <<>>]
         IN Trailer(InflateStored(data, 2, avail_out))

\* inflateInit2(&strm, wb) and inflate(&strm, Z_FINISH) == Z_STREAM_END
Inflate(data, wb, avail_out) ==
    LET Raw(b) == [end |-> b.end, out |-> b.out] IN
    IF wb < 0 THEN Raw(InflateStored(data, 0, avail_out))
    ELSE InflateZlib(data, avail_out)

window_bits == <<MAX_WBITS, -MAX_WBITS, MAX_WBITS + 32>>

RECURSIVE DecompressZlibFrom(_, _, _)
DecompressZlibFrom(data, uncompressed_size, k) ==
    IF k > Len(window_bits) THEN <<>>
    ELSE LET Try(r) ==
                 IF r.end THEN r.out ELSE DecompressZlibFrom(data, uncompressed_size, k + 1)
         IN Try(Inflate(data, window_bits[k], uncompressed_size))

\* PsarcFile::DecompressZlib
DecompressZlib(data, uncompressed_size) ==
    IF data = <<>> THEN <<>> ELSE DecompressZlibFrom(data, uncompressed_size, 1)

LzmaHeaderLen == 13

\* lzma_alone_decoder + lzma_code(&strm, LZMA_FINISH): [ret, out].  The
\* .lzma header is 13 bytes (properties, dictionary size, uncompressed size);
\* a properties byte above 224 is LZMA_FORMAT_ERROR, an input that ends
\* inside the header is LZMA_OK with nothing written.  The range-coded
\* payload is modelled as its literals: decoding stops at the declared size
\* (LZMA_STREAM_END), at the end of the input or of the output (LZMA_OK).
LzmaCode(data, avail_out) ==
    IF Len(data) < LzmaHeaderLen THEN [ret |-> "LZMA_OK", out |-> <<>>]
    ELSE IF data[1] > 224 THEN [ret |-> "LZMA_FORMAT_ERROR", out |-> <<>>]
    ELSE LET usize   == data[6] + 256 * data[7]
             payload == Drop(data, LzmaHeaderLen)
             n       == Min(Min(usize, Len(payload)), avail_out)
         IN [ret |-> IF n = usize THEN "LZMA_STREAM_END" ELSE "LZMA_OK",
             out |-> Take(payload, n)]

\* PsarcFile::DecompressLzma
DecompressLzma(data, uncompressed_size) ==
    IF data = <<>> THEN <<>>
    ELSE LET Code(r) == IF r.ret \in {"LZMA_STREAM_END", "LZMA_OK"} THEN r.out ELSE <<>>
         IN Code(LzmaCode(data, uncompressed_size))

(***************************************************************************)
(* AES.  The ciphers are modelled as byte-wise stream ciphers with the     *)
(* chaining of their mode: CFB128 takes the key stream of a block from     *)
(* the previous ciphertext block (the IV for the first), CTR from the IV   *)
(* and the block counter.                                                  *)
(***************************************************************************)
CfbKey(data, i) == IF i <= 16 THEN g_psarc_iv[i] ELSE data[i - 16]

\* PsarcFile::DecryptToc
DecryptToc(data) == [i \in 1..Len(data) |-> (data[i] + 256 - CfbKey(data, i)) % 256]

CtrKey(iv, i) == (iv[((i - 1) % 16) + 1] + ((i - 1) \div 16)) % 256

\* what the build may do on the out-of-bounds read of a too-short payload
UBChoices == {"SIGSEGV", "std::length_error", "none"}

\* a faulty Compressed: any flag bit makes the payload compressed
AnyFlag(flags) == flags # 0

\* flags & g_sng_compressed_flag
Compressed(flags) == flags % 2 = g_sng_compressed_flag

\* PsarcFile::DecryptSng: [exc, msg, data]
DecryptSng(data, ub) ==
    IF Len(data) < 24 THEN [exc |-> "PsarcException", msg |-> "SNG data too short", data |-> <<>>]
    ELSE IF ReadLE32(data, 0) # g_sng_magic
    THEN [exc |-> "PsarcException", msg |-> "Invalid SNG magic", data |-> <<>>]
    ELSE LET flags     == ReadLE32(data, 4)
             iv        == Slice(data, 8, 16)
             payload   == Drop(data, 24)
             decrypted == [i \in 1..Len(payload) |-> (payload[i] + 256 - CtrKey(iv, i)) % 256]
         IN IF Compressed(flags)
            THEN IF Len(decrypted) < 4
                 THEN [exc |-> ub, msg |-> "read past the end of decrypted", data |-> <<>>]
                 ELSE [exc |-> "none", msg |-> "",
                       data |-> DecompressZlib(Drop(decrypted, 4), ReadLE32(decrypted, 0))]
            ELSE [exc |-> "none", msg |-> "", data |-> decrypted]

(***************************************************************************)
(* PsarcFile::ReadToc.                                                     *)
(***************************************************************************)
FileEntry0 == [name |-> <<>>, offset |-> 0, uncompressed_size |-> 0, start_chunk_index |-> 0]

\* std::vector::resize(n): the first n elements kept, new ones value-initialised
Resize(v, n, zero) == [i \in 1..n |-> IF i <= Len(v) THEN v[i] ELSE zero]

RECURSIVE ReadBEn(_, _, _)
\* length = (length << 8) | toc_data[pos++], n times
ReadBEn(data, p, n) ==
    IF n = 0 THEN 0 ELSE ReadBEn(data, p, n - 1) * 256 + data[p + n]

RECURSIVE ReadTocEntries(_, _, _, _, _, _)
\* the loop over the num_files TOC entries: [exc, msg, entries, pos]
ReadTocEntries(toc_data, b_num, num_files, i, pos0, entries) ==
    IF i >= num_files THEN [exc |-> "none", msg |-> "", entries |-> entries, pos |-> pos0]
    ELSE LET pos == pos0 + 16 IN
         IF pos + 4 > Len(toc_data)
         THEN [exc |-> "PsarcException", msg |-> "TOC data truncated while reading entry",
               entries |-> entries, pos |-> pos]
         ELSE LET e1 == [entries EXCEPT ![i + 1].start_chunk_index = ReadBE32(toc_data, pos)] IN
              IF pos + 4 + b_num * 2 > Len(toc_data)
              THEN [exc |-> "PsarcException",
                    msg |-> "TOC data truncated while reading length/offset",
                    entries |-> e1, pos |-> pos + 4]
              ELSE ReadTocEntries(toc_data, b_num, num_files, i + 1, pos + 4 + 2 * b_num,
                       [e1 EXCEPT ![i + 1].uncompressed_size = ReadBEn(toc_data, pos + 4, b_num),
                                  ![i + 1].offset = ReadBEn(toc_data, pos + 4 + b_num, b_num)])

RECURSIVE ReadZLengths(_, _, _)
\* while (pos + 1 < toc_data.size()) m_z_lengths.push_back(ReadBE16(...))
ReadZLengths(toc_data, pos, zl) ==
    IF pos + 1 < Len(toc_data)
    THEN ReadZLengths(toc_data, pos + 2, Append(zl, ReadBE16(toc_data, pos)))
    ELSE zl

\* the entry-size check of ReadToc: b_num, or 0 when the size is rejected
TocFieldWidth(toc_entry_size) ==
    LET b_num == TruncDiv(toc_entry_size - 20, 2) IN
    IF b_num < 1 \/ b_num > 8 THEN 0 ELSE b_num

\* [exc, msg, s, entries, zl]; mem: whether an allocation of 2 GiB or more fails
ReadToc(s0, d, h, entries0, zl0, mem) ==
    LET Lengths(s, toc_data, e) ==
            IF e.exc # "none"
            THEN [exc |-> e.exc, msg |-> e.msg, s |-> s, entries |-> e.entries, zl |-> zl0]
            ELSE [exc |-> "none", msg |-> "", s |-> s, entries |-> e.entries,
                  zl |-> ReadZLengths(toc_data, e.pos, zl0)]
        Entries(s, toc_data, b_num) ==
            IF b_num = 0
            THEN [exc |-> "PsarcException", msg |-> "Invalid TOC entry size", s |-> s,
                  entries |-> entries0, zl |-> zl0]
            ELSE Lengths(s, toc_data,
                         ReadTocEntries(toc_data, b_num, h.num_files, 0, 0,
                                        Resize(entries0, h.num_files, FileEntry0)))
        Decrypt(r) ==
            IF r.exc # "none"
            THEN [exc |-> r.exc, msg |-> r.msg, s |-> r.s, entries |-> entries0, zl |-> zl0]
            ELSE Entries(r.s,
                         IF (h.archive_flags \div g_toc_encrypted_flag) % 2 = 1
                         THEN DecryptToc(r.data) ELSE r.data,
                         TocFieldWidth(h.toc_entry_size))
        Buffer(size) ==
            IF size[1] >= 32768 /\ mem = "bad_alloc"
            THEN [exc |-> "std::bad_alloc", msg |-> "std::bad_alloc", s |-> Seekg(s0, 32),
                  entries |-> entries0, zl |-> zl0]
            ELSE Decrypt(ReadBytesU32(Seekg(s0, 32), d, size))
    IN Buffer(SubU32(h.toc_length, 32))

(***************************************************************************)
(* PsarcFile::ExtractFileByIndex.                                          *)
(***************************************************************************)
IsSngName(name) == Contains(name, SngDir) /\ EndsWith(name, SngExt)

\* the decompression of one chunk, by the archive's compression tag
DecompressChunk(compression, chunk, expected_size) ==
    IF compression = CompZlib THEN DecompressZlib(chunk, expected_size)
    ELSE IF compression = CompLzma THEN DecompressLzma(chunk, expected_size)
    ELSE LET Fallback(z) == IF z = <<>> THEN DecompressLzma(chunk, expected_size) ELSE z
         IN Fallback(DecompressZlib(chunk, expected_size))

\* a faulty ChunkOutput: a chunk that does not decompress adds nothing
DropUndecoded(compression, chunk, expected_size) ==
    DecompressChunk(compression, chunk, expected_size)

\* what a chunk with z_len # 0 adds to the result
ChunkOutput(compression, chunk, expected_size) ==
    LET Insert(decompressed) == IF decompressed # <<>> THEN decompressed ELSE chunk
    IN Insert(DecompressChunk(compression, chunk, expected_size))

RECURSIVE ExtractLoop(_, _, _, _, _, _, _)
\* while (result.size() < entry.uncompressed_size): [exc, msg, s, data]
ExtractLoop(result, z_index, s, d, h, zl, size) ==
    IF Len(result) >= size THEN Ok(s, result)
    ELSE IF z_index >= Len(zl) THEN Throw("Chunk index out of range", s)
    ELSE LET z_len == zl[z_index + 1]
             Block(r) ==
                 IF r[1].gcount = 0 /\ ~r[1].eof
                 THEN Throw("Failed to read uncompressed block", r[1])
                 ELSE ExtractLoop(result \o r[2], z_index + 1, r[1], d, h, zl, size)
             Chunk(r) ==
                 IF r[1].gcount # z_len
                 THEN Throw("Failed to read compressed chunk", r[1])
                 ELSE ExtractLoop(
                          result \o ChunkOutput(h.compression_method, r[2],
                                                Min(size - Len(result), h.block_size)),
                          z_index + 1, r[1], d, h, zl, size)
         IN IF z_len = 0 THEN Block(StreamRead(s, d, h.block_size))
            ELSE Chunk(StreamRead(s, d, z_len))

\* a faulty Truncate: the resize is left out
KeepAll(result, size) == result

\* result.resize(std::min(result.size(), entry.uncompressed_size))
Truncate(result, size) == Take(result, size)

\* [exc, msg, s, data]
ExtractFileByIndex(index, s, d, h, entries, zl, ub) ==
    IF index < 0 \/ index >= Len(entries) THEN Throw("Invalid entry index", s)
    ELSE LET entry == entries[index + 1]
             Decoded(s1, g) == [exc |-> g.exc, msg |-> g.msg, s |-> s1, data |-> g.data]
             Sng(s1, result) ==
                 IF IsSngName(entry.name) THEN Decoded(s1, DecryptSng(result, ub))
                 ELSE Ok(s1, result)
             Assembled(r) ==
                 IF r.exc # "none" THEN r
                 ELSE Sng(r.s, Truncate(r.data, entry.uncompressed_size))
         IN IF entry.uncompressed_size = 0 THEN Ok(s, <<>>)
            ELSE Assembled(ExtractLoop(<<>>, entry.start_chunk_index,
                                       Seekg(s, entry.offset), d, h, zl,
                                       entry.uncompressed_size))

(***************************************************************************)
(* PsarcFile::ReadManifest.                                                *)
(***************************************************************************)
RECURSIVE GetLines(_, _)
\* while (std::getline(iss, line)): the lines of text, cur the line being read
GetLines(text, cur) ==
    IF text = <<>> THEN (IF cur = <<>> THEN <<>> ELSE <<cur>>)
    ELSE IF Head(text) = LF THEN <<cur>> \o GetLines(Tail(text), <<>>)
    ELSE GetLines(Tail(text), Append(cur, Head(text)))

\* a faulty TrimLine: the line is taken as it is
WholeLine(line) == line

\* line.substr(start, end - start + 1) between find_first_not_of and
\* find_last_not_of(" \t\r\n"); <<>> when the line holds nothing else
TrimLine(line) ==
    LET keep == {i \in 1..Len(line) : line[i] \notin TrimChars} IN
    IF keep = {} THEN <<>>
    ELSE SubSeq(line, CHOOSE i \in keep : \A j \in keep : i <= j,
                      CHOOSE i \in keep : \A j \in keep : i >= j)

RECURSIVE ManifestNames(_)
\* names: the trimmed lines, those without any other character left out
ManifestNames(lines) ==
    IF lines = <<>> THEN <<>>
    ELSE LET t == TrimLine(Head(lines)) IN
         (IF t = <<>> THEN <<>> ELSE <<t>>) \o ManifestNames(Tail(lines))

MapPut(m, k, v) == [x \in (DOMAIN m) \cup {k} |-> IF x = k THEN v ELSE m[x]]

EmptyMap == [x \in {} |-> 0]

RECURSIVE AssignNames(_, _, _, _)
\* for (i = 1; i < m_entries.size() && i - 1 < names.size(); ++i): <<entries, map>>
AssignNames(entries, map, names, i) ==
    IF i < Len(entries) /\ i - 1 < Len(names)
    THEN AssignNames([entries EXCEPT ![i + 1].name = names[i]],
                     MapPut(map, names[i], i), names, i + 1)
    ELSE <<entries, map>>

\* [exc, msg, s, entries, map]
ReadManifest(s, d, h, entries, zl, map, ub) ==
    IF entries = <<>>
    THEN [exc |-> "PsarcException", msg |-> "No entries in PSARC", s |-> s,
          entries |-> entries, map |-> map]
    ELSE LET WithNames(s1, a) ==
                 [exc |-> "none", msg |-> "", s |-> s1, entries |-> a[1], map |-> a[2]]
             Manifest(r) ==
                 IF r.exc # "none"
                 THEN [exc |-> r.exc, msg |-> r.msg, s |-> r.s, entries |-> entries,
                       map |-> map]
                 ELSE WithNames(r.s,
                                AssignNames([entries EXCEPT ![1].name = NamesBlockBin],
                                            MapPut(map, NamesBlockBin, 0),
                                            ManifestNames(GetLines(r.data, <<>>)), 1))
         IN Manifest(ExtractFileByIndex(0, s, d, h, entries, zl, ub))

(***************************************************************************)
(* The public operations.  ret records the last call.                      *)
(***************************************************************************)
\* the object as the call found it: IsOpen(), the sizes of its tables, whether
\* m_file is a stream without failbit
Pre0 == [is_open |-> FALSE, entries |-> 0, z_lengths |-> 0, file_ok |-> FALSE]

Pre ==
    [is_open |-> m_is_open, entries |-> Len(m_entries), z_lengths |-> Len(m_z_lengths),
     file_ok |-> ~m_file.null /\ ~m_file.fail]

Ret0 == [op |-> "new", arg |-> <<>>, pre |-> Pre0, index |-> -1, exc |-> "none", msg |-> "",
         data |-> <<>>, visited |-> <<>>, failed |-> <<>>, written |-> <<>>]

Result(op, arg, exc, msg) ==
    [Ret0 EXCEPT !.op = op, !.arg = arg, !.pre = Pre, !.exc = exc, !.msg = msg]

\* no operation is called after a crash: the process is gone
Alive == ret.exc # "SIGSEGV"

\* PsarcFile::Open; present: whether the file at m_file_path can be opened
OpenBody(is_open, present, mem, ub) ==
    LET AfterManifest(hd, toc, man) ==
            /\ m_file' = man.s
            /\ m_header' = hd.h
            /\ m_entries' = man.entries
            /\ m_z_lengths' = toc.zl
            /\ m_file_map' = man.map
            /\ m_is_open' = (man.exc = "none")
            /\ ret' = Result("Open", <<>>, man.exc, man.msg)
            /\ UNCHANGED <<others, disk>>
        AfterToc(hd, toc) ==
            IF toc.exc # "none"
            THEN /\ m_file' = toc.s
                 /\ m_header' = hd.h
                 /\ m_entries' = toc.entries
                 /\ m_z_lengths' = toc.zl
                 /\ ret' = Result("Open", <<>>, toc.exc, toc.msg)
                 /\ UNCHANGED <<others, disk, m_file_map, m_is_open>>
            ELSE AfterManifest(hd, toc,
                               ReadManifest(toc.s, disk, hd.h, toc.entries, toc.zl,
                                            m_file_map, ub))
        AfterHeader(hd) ==
            IF hd.exc # "none"
            THEN /\ m_file' = hd.s
                 /\ m_header' = hd.h
                 /\ ret' = Result("Open", <<>>, hd.exc, hd.msg)
                 /\ UNCHANGED <<others, disk, m_entries, m_z_lengths, m_file_map, m_is_open>>
            ELSE AfterToc(hd, ReadToc(hd.s, disk, hd.h, m_entries, m_z_lengths, mem))
    IN IF is_open
       THEN /\ ret' = Result("Open", <<>>, "none", "")
            /\ UNCHANGED <<others, disk, m_file, m_header, m_entries, m_z_lengths, m_file_map,
                           m_is_open>>
       ELSE IF ~present
       THEN /\ m_file' = FailedStream
            /\ ret' = Result("Open", <<>>, "PsarcException", "Failed to open file")
            /\ UNCHANGED <<others, disk, m_header, m_entries, m_z_lengths, m_file_map, m_is_open>>
       ELSE AfterHeader(ReadHeader(NewStream, disk, m_header))

\* A failed Open leaves its chunk lengths in m_z_lengths and the next Open
\* appends to them: a closed archive is opened while at most MaxStale chunk
\* lengths are left over.
MaxStale == 8

\* a faulty Open: the early return of an open archive is left out
OpenAgain(present, mem, ub) ==
    /\ Alive
    /\ Len(m_z_lengths) <= MaxStale
    /\ OpenBody(FALSE, present, mem, ub)

Open(present, mem, ub) ==
    /\ Alive
    /\ m_is_open \/ Len(m_z_lengths) <= MaxStale
    /\ OpenBody(m_is_open, present, mem, ub)

\* a faulty Close: m_z_lengths.clear() is left out
CloseKeepLengths ==
    /\ Alive
    /\ m_file' = NoFile
    /\ m_entries' = <<>>
    /\ m_file_map' = EmptyMap
    /\ m_is_open' = FALSE
    /\ ret' = Result("Close", <<>>, "none", "")
    /\ UNCHANGED <<others, disk, m_header, m_z_lengths>>

\* PsarcFile::Close
Close ==
    /\ Alive
    /\ m_file' = NoFile
    /\ m_entries' = <<>>
    /\ m_file_map' = EmptyMap
    /\ m_z_lengths' = <<>>
    /\ m_is_open' = FALSE
    /\ ret' = Result("Close", <<>>, "none", "")
    /\ UNCHANGED <<others, disk, m_header>>

\* PsarcFile::GetFileList
GetFileList(entries) ==
    LET names == [i \in 1..Len(entries) |-> entries[i].name]
    IN SelectSeq(names, LAMBDA name : name # <<>>)

\* PsarcFile::GetFileCount
GetFileCount(entries) == Len(entries)

\* PsarcFile::FileExists
FileExists(map, file_name) == file_name \in DOMAIN map

\* PsarcFile::IsOpen
IsOpen == m_is_open

\* PsarcFile::ExtractFile as a value: [exc, msg, s, data, index]
ExtractFileResult(file_name, ub) ==
    IF file_name \notin DOMAIN m_file_map
    THEN [exc |-> "PsarcException", msg |-> "File not found", s |-> m_file, data |-> <<>>,
          index |-> -1]
    ELSE LET Found(r) == [exc |-> r.exc, msg |-> r.msg, s |-> r.s, data |-> r.data,
                          index |-> m_file_map[file_name]]
         IN Found(ExtractFileByIndex(m_file_map[file_name], m_file, disk, m_header,
                                     m_entries, m_z_lengths, ub))

\* PsarcFile::ExtractFile
ExtractFile(file_name, ub) ==
    LET Return(r) ==
            /\ m_file' = r.s
            /\ ret' = [Result("ExtractFile", file_name, r.exc, r.msg) EXCEPT
                           !.index = r.index, !.data = r.data]
            /\ UNCHANGED <<others, disk, m_header, m_entries, m_z_lengths, m_file_map, m_is_open>>
    IN Alive /\ Return(ExtractFileResult(file_name, ub))

\* what the output file system does with one file
FsOutcomes == {"ok", "mkdir", "create", "write"}

\* PsarcFile::ExtractFileTo; fs: what happens to output_path
ExtractFileTo(file_name, fs, ub) ==
    LET Write(r) ==
            /\ m_file' = r.s
            /\ ret' = IF r.exc # "none"
                      THEN [Result("ExtractFileTo", file_name, r.exc, r.msg) EXCEPT
                                !.index = r.index]
                      ELSE IF fs = "create"
                      THEN [Result("ExtractFileTo", file_name, "PsarcException",
                                   "Failed to create file") EXCEPT !.index = r.index]
                      ELSE IF fs = "write"
                      THEN [Result("ExtractFileTo", file_name, "PsarcException",
                                   "Failed to write file") EXCEPT !.index = r.index]
                      ELSE [Result("ExtractFileTo", file_name, "none", "") EXCEPT
                                !.index = r.index,
                                !.written = <<[index |-> r.index, name |-> file_name,
                                               data |-> r.data]>>]
            /\ UNCHANGED <<others, disk, m_header, m_entries, m_z_lengths, m_file_map, m_is_open>>
    IN Alive /\ Write(ExtractFileResult(file_name, ub))

\* a faulty RecordFailure: the failure is swallowed
DropFailure(failed, i, name, why) == failed

\* failed_files.push_back(...)
RecordFailure(failed, i, name, why) == Append(failed, [index |-> i, name |-> name, why |-> why])

RECURSIVE ExtractAllLoop(_, _, _, _, _, _, _)
\* for (size_t i = 0; i < m_entries.size(); ++i): [s, visited, failed, written, crash];
\* fs[i + 1] is what the output file system does with entry i
ExtractAllLoop(i, s, visited, failed, written, fs, ub) ==
    IF i >= Len(m_entries)
    THEN [s |-> s, visited |-> visited, failed |-> failed, written |-> written,
          crash |-> FALSE]
    ELSE LET entry == m_entries[i + 1]
             fail(why, s1) ==
                 ExtractAllLoop(i + 1, s1, Append(visited, i),
                     RecordFailure(failed, i, entry.name, why), written, fs, ub)
             Write(r) ==
                 IF r.exc = "SIGSEGV"
                 THEN [s |-> r.s, visited |-> Append(visited, i), failed |-> failed,
                       written |-> written, crash |-> TRUE]
                 ELSE IF r.exc # "none" THEN fail(r.msg, r.s)
                 ELSE IF fs[i + 1] = "create" THEN fail("failed to create file", r.s)
                 ELSE IF fs[i + 1] = "write" THEN fail("failed to write data", r.s)
                 ELSE ExtractAllLoop(i + 1, r.s, Append(visited, i), failed,
                          Append(written, [index |-> i, name |-> entry.name,
                                           data |-> r.data]),
                          fs, ub)
         IN IF entry.name = <<>>
            THEN ExtractAllLoop(i + 1, s, visited, failed, written, fs, ub)
            ELSE IF fs[i + 1] = "mkdir" THEN fail("filesystem error", s)
            ELSE Write(ExtractFileByIndex(i, s, disk, m_header, m_entries, m_z_lengths, ub))

\* PsarcFile::ExtractAll; dir_ok: whether output_directory can be created
ExtractAll(dir_ok, fs, ub) ==
    IF ~Alive THEN FALSE
    ELSE IF ~dir_ok
    THEN /\ ret' = Result("ExtractAll", <<>>, "std::filesystem::filesystem_error",
                          "cannot create directories")
         /\ UNCHANGED <<others, disk, m_file, m_header, m_entries, m_z_lengths, m_file_map,
                        m_is_open>>
    ELSE LET Report(r) ==
                 /\ m_file' = r.s
                 /\ ret' = [Result("ExtractAll", fs,
                                   IF r.crash THEN "SIGSEGV"
                                   ELSE IF r.failed # <<>> THEN "PsarcException" ELSE "none",
                                   IF r.crash THEN "read past the end of decrypted"
                                   ELSE IF r.failed # <<>> THEN "Failed to extract file(s)"
                                   ELSE "")
                            EXCEPT !.visited = r.visited, !.failed = r.failed,
                                   !.written = r.written]
                 /\ UNCHANGED <<others, disk, m_header, m_entries, m_z_lengths, m_file_map,
                                m_is_open>>
         IN Report(ExtractAllLoop(0, m_file, <<>>, <<>>, <<>>, fs, ub))

(***************************************************************************)
(* The archives of Init: files written the way an archive writer lays      *)
(* them out, well formed and damaged.  MaxFiles bounds the number of TOC   *)
(* entries, SmallBlock is the block size of the archives that split their  *)
(* entries into several chunks.                                            *)
(***************************************************************************)
MaxFiles == 3

SmallBlock == 4

BE16(n) == <<(n \div 256) % 256, n % 256>>

BE32(n) == <<n \div 16777216, (n \div 65536) % 256, (n \div 256) % 256, n % 256>>

LE32(n) == <<n % 256, (n \div 256) % 256, (n \div 65536) % 256, n \div 16777216>>

RECURSIVE BEn(_, _)
BEn(n, w) == IF w = 0 THEN <<>> ELSE BEn(n \div 256, w - 1) \o <<n % 256>>

Zeros(n) == [i \in 1..n |-> 0]

RECURSIVE Pieces(_, _)
\* c cut into pieces of n bytes
Pieces(c, n) == IF Len(c) <= n THEN <<c>> ELSE <<Take(c, n)>> \o Pieces(Drop(c, n), n)

\* a stored deflate block, a zlib stream and a .lzma stream holding c
EncDeflate(c) == <<1, Len(c), 0, 255 - Len(c), 255>> \o c

EncZlib(c) == <<120, 1>> \o EncDeflate(c) \o Adler32(c)

EncLzma(c) == <<93, 0, 0, 0, 1, Len(c)>> \o Zeros(7) \o c

\* one chunk: its z_len in the chunk-length table, its bytes in the file
EncChunk(kind, c) ==
    CASE kind = "deflate" -> [z |-> 5 + Len(c), raw |-> EncDeflate(c)]
      [] kind = "zlib"    -> [z |-> 11 + Len(c), raw |-> EncZlib(c)]
      [] kind = "lzma"    -> [z |-> 13 + Len(c), raw |-> EncLzma(c)]
      [] kind = "stored"  -> [z |-> 0, raw |-> c]
      [] OTHER            -> [z |-> Len(c), raw |-> c]

\* an entry holding c: "whole" and "bytewise" are deflate chunks of the
\* whole content and of one byte each, whatever the block size
EncFile(kind, c, bs) ==
    [ulen |-> Len(c),
     chunks |-> IF c = <<>> THEN <<>>
                ELSE IF kind = "whole" THEN <<EncChunk("deflate", c)>>
                ELSE IF kind = "bytewise"
                THEN [i \in 1..Len(c) |-> EncChunk("deflate", <<c[i]>>)]
                ELSE LET ps == Pieces(c, bs) IN [i \in 1..Len(ps) |-> EncChunk(kind, ps[i])]]

FileKinds == {"deflate", "zlib", "lzma", "stored", "raw", "whole", "bytewise"}

RECURSIVE EncryptToc(_, _)
\* the inverse of DecryptToc: done is the ciphertext so far
EncryptToc(plain, done) ==
    IF Len(done) = Len(plain) THEN done
    ELSE LET i == Len(done) + 1 IN
         EncryptToc(plain, Append(done, (plain[i] + CfbKey(done, i)) % 256))

\* an SNG entry: magic, flags, IV, the encrypted payload
EncSng(magic, flags, iv, plain) ==
    LE32(magic) \o LE32(flags) \o iv \o [i \in 1..Len(plain) |-> (plain[i] + CtrKey(iv, i)) % 256]

RawLen(f) == SumSeq([i \in 1..Len(f.chunks) |-> Len(f.chunks[i].raw)])

\* The archive file of a: the 32-byte header, the TOC (entries, then the
\* chunk-length table), the chunks.  a.files are the entries; the other
\* fields damage the archive: a.nf is the header's num_files, a.width the
\* field width the entries are written with, a.toc_delta is added to
\* toc_length, a.shift[i] to the start chunk index of entry i - 1, a.cut
\* bytes are cut from the end of the file; a.toc_abs, when not negative, is
\* the header's toc_length.
Archive(a) ==
    LET n      == Len(a.files)
        zs     == Flatten([i \in 1..n |->
                      [j \in 1..Len(a.files[i].chunks) |-> a.files[i].chunks[j].z]])
        toclen == n * (20 + 2 * a.width) + 2 * Len(zs)
        start(i) == SumSeq([k \in 1..(i - 1) |-> Len(a.files[k].chunks)])
        off(i)   == 32 + toclen + SumSeq([k \in 1..(i - 1) |-> RawLen(a.files[k])])
        toc    == Flatten([i \in 1..n |->
                      Zeros(16) \o BE32(start(i) + a.shift[i])
                      \o BEn(a.files[i].ulen, a.width) \o BEn(off(i), a.width)])
                  \o Flatten([j \in 1..Len(zs) |-> BE16(zs[j])])
        data   == Flatten([i \in 1..n |->
                      Flatten([j \in 1..Len(a.files[i].chunks) |-> a.files[i].chunks[j].raw])])
        whole  == BE32(a.magic) \o BE16(a.major) \o BE16(a.minor) \o a.comp
                  \o BE32(IF a.toc_abs >= 0 THEN a.toc_abs ELSE 32 + toclen + a.toc_delta) \o BE32(a.entry_size) \o BE32(a.nf)
                  \o BE32(a.bs) \o BE32(a.flags)
                  \o (IF (a.flags \div 4) % 2 = 1 THEN EncryptToc(toc, <<>>) ELSE toc)
                  \o data
    IN Take(whole, Len(whole) - a.cut)

\* manifest texts: "f\nn\n", " f \r\n\n\tn", "f\n", "f\nn\no\n", "f\nf\n", "",
\* "songs/bin/generic/f.sng\nn\n", "NamesBlock.bin\nn\n"
Texts ==
    {<<102, 10, 110, 10>>,
     <<32, 102, 32, 13, 10, 10, 9, 110>>,
     <<102, 10>>,
     <<102, 10, 110, 10, 111, 10>>,
     <<102, 10, 102, 10>>,
     <<>>,
     SngDir \o <<102>> \o SngExt \o <<10, 110, 10>>,
     NamesBlockBin \o <<10, 110, 10>>}

\* the content of entry i >= 1
Content(i) == IF i % 2 = 1 THEN <<102, 111, 7, 110, 111, 102>> ELSE <<110, 7, 111>>

Comps == {CompZlib, CompLzma, <<0, 0, 0, 0>>}

Plain(files, bs) ==
    [magic |-> g_psarc_magic, major |-> 1, minor |-> 4, comp |-> CompZlib,
     entry_size |-> 30, width |-> 5, nf |-> Len(files), bs |-> bs, flags |-> 0,
     files |-> files, toc_delta |-> 0, toc_abs |-> -1, shift |-> Zeros(Len(files)),
     cut |-> 0]

\* n entries: the manifest text, then entries of alternating kinds
TextFiles(text, n) ==
    [i \in 1..n |-> IF i = 1 THEN EncFile("deflate", text, SmallBlock)
                    ELSE EncFile(IF i % 2 = 0 THEN "raw" ELSE "deflate",
                                 Content(i - 1), SmallBlock)]

\* MaxFiles entries, the last one raw, the others of one kind
KindFiles(kind) ==
    [i \in 1..MaxFiles |->
        IF i = 1 THEN EncFile(kind, <<102, 10, 110, 10>>, SmallBlock)
        ELSE IF i = MaxFiles THEN EncFile("raw", Content(i - 1), SmallBlock)
        ELSE EncFile(kind, Content(i - 1), SmallBlock)]

Sound == Plain(TextFiles(<<102, 10, 110, 10>>, MaxFiles), SmallBlock)

Damaged ==
    {[Sound EXCEPT !.magic = g_psarc_magic + 1],
     [Sound EXCEPT !.major = 2],
     [Sound EXCEPT !.minor = 3],
     [Sound EXCEPT !.magic = 0, !.minor = 3],
     [Sound EXCEPT !.flags = 4],
     [Sound EXCEPT !.flags = 5],
     [Sound EXCEPT !.flags = 4, !.toc_delta = -2],
     [Sound EXCEPT !.bs = 0],
     [Sound EXCEPT !.bs = SmallBlock - 2],
     [Sound EXCEPT !.bs = 64],
     [Sound EXCEPT !.toc_delta = -1],
     [Sound EXCEPT !.toc_delta = -2],
     [Sound EXCEPT !.toc_delta = -24],
     [Sound EXCEPT !.toc_delta = -35],
     [Sound EXCEPT !.toc_delta = 1],
     [Sound EXCEPT !.toc_delta = 1000],
     [Sound EXCEPT !.toc_abs = 0],
     [Sound EXCEPT !.toc_abs = 31],
     [Sound EXCEPT !.toc_abs = 32],
     [Sound EXCEPT !.nf = 0],
     [Sound EXCEPT !.nf = MaxFiles - 1],
     [Sound EXCEPT !.nf = MaxFiles + 1],
     [Sound EXCEPT !.cut = 1],
     [Sound EXCEPT !.cut = 4],
     [Sound EXCEPT !.cut = 12]}
    \cup {[Sound EXCEPT !.entry_size = e[1], !.width = e[2]] :
             e \in {<<22, 1>>, <<23, 1>>, <<24, 2>>, <<31, 5>>, <<36, 8>>, <<37, 8>>,
                    <<0, 5>>, <<19, 5>>, <<20, 5>>, <<21, 5>>, <<38, 5>>, <<39, 5>>,
                    <<22, 5>>}}
    \cup {[Sound EXCEPT !.shift[k] = d] : k \in 1..MaxFiles, d \in {1, 2, 40}}

\* archives whose second entry is an SNG: the content of that entry
SngIv == <<1, 2, 3, 4, 5, 6, 7, 8, 9, 10, 11, 12, 13, 14, 15, 250>>

SngContents ==
    {EncSng(g_sng_magic, 0, SngIv, <<1, 2, 3>>),
     EncSng(g_sng_magic, 2, SngIv, <<>>),
     EncSng(g_sng_magic, 1, SngIv, LE32(3) \o EncZlib(<<9, 8, 7>>)),
     EncSng(g_sng_magic, 1, SngIv, LE32(5) \o EncDeflate(<<9, 8, 7>>)),
     EncSng(g_sng_magic, 1, SngIv, LE32(2) \o EncZlib(<<9, 8, 7>>)),
     EncSng(g_sng_magic, 1, SngIv, LE32(3) \o <<102, 111>>),
     EncSng(g_sng_magic, 1, SngIv, <<5>>),
     EncSng(g_sng_magic, 3, SngIv, <<>>),
     EncSng(g_sng_magic + 1, 0, SngIv, <<1, 2, 3>>),
     <<74, 0, 0, 0, 0>>}

SngFiles(c) ==
    <<EncFile("whole", SngDir \o <<102>> \o SngExt \o <<10, 110, 10>>, 64),
      EncFile("whole", c, 64),
      EncFile("raw", Content(2), 64)>>

\* the archive of two stored entries whose only block ends the file
Tiny == Plain(<<EncFile("stored", <<102, 10>>, 64), EncFile("stored", Content(1), 64)>>, 64)

\* the archive whose last entry is one stored block, shorter than block_size,
\* that ends the file
Trailing ==
    Plain(<<EncFile("deflate", <<102, 10, 110, 10>>, 64), EncFile("raw", Content(1), 64),
            EncFile("stored", Content(2), 64)>>, 64)

Archives ==
    {Archive(Plain(TextFiles(text, n), SmallBlock)) : text \in Texts, n \in 0..MaxFiles}
    \cup {Archive([Plain(KindFiles(kind), SmallBlock) EXCEPT !.comp = comp]) :
             kind \in FileKinds, comp \in Comps}
    \cup {Archive(a) : a \in Damaged}
    \cup {Archive(Plain(SngFiles(c), 64)) : c \in SngContents}
    \cup {Take(Archive(Sound), k) : k \in {0, 3, 6, 20, 40}}
    \cup {Archive(Tiny), Archive(Trailing)}

(***************************************************************************)
(* The specification.                                                      *)
(***************************************************************************)
Init ==
    /\ disk \in Archives
    /\ m_file = NoFile
    /\ m_header = Header0
    /\ m_entries = <<>>
    /\ m_z_lengths = <<>>
    /\ m_file_map = EmptyMap
    /\ m_is_open = FALSE
    /\ ret = Ret0
    /\ parser = Unused
    /\ writer = Unused
    /\ converter = Unused
    /\ threads = Unused

\* a name no manifest of Init holds: "x"
Missing == <<120>>

\* The inputs that cannot matter are not enumerated: an allocation fails only
\* for the TOC buffer of a toc_length below 32, the out-of-bounds read is
\* reached only through an entry with an SNG name, the output file system
\* is asked only about the named entries.
MemChoices ==
    IF Len(disk) >= 16 /\ ReadBE32(disk, 12) < 32 THEN {"ok", "bad_alloc"} ELSE {"ok"}

UBReachable ==
    IF \E i \in 1..Len(m_entries) : IsSngName(m_entries[i].name) THEN UBChoices ELSE {"none"}

Named == {i \in 1..Len(m_entries) : m_entries[i].name # <<>>}

FsFor(bad, kind) == [i \in 1..Len(m_entries) |-> IF i \in bad THEN kind ELSE "ok"]

Next ==
    \/ \E present \in BOOLEAN, mem \in MemChoices, ub \in UBReachable :
           Open(present, mem, ub)
    \/ Close
    \/ \E name \in (DOMAIN m_file_map) \cup {Missing}, ub \in UBReachable :
           ExtractFile(name, ub)
    \/ \E name \in (DOMAIN m_file_map) \cup {Missing}, fs \in {"ok", "create", "write"},
          ub \in UBReachable :
           ExtractFileTo(name, fs, ub)
    \/ ExtractAll(FALSE, FsFor({}, "ok"), "none")
    \/ \E ub \in UBReachable : ExtractAll(TRUE, FsFor({}, "ok"), ub)
    \/ \E bad \in (SUBSET Named) \ {{}}, kind \in FsOutcomes \ {"ok"}, ub \in UBReachable :
           ExtractAll(TRUE, FsFor(bad, kind), ub)

Spec == Init /\ [][Next]_vars

(***************************************************************************)
(* The properties.  ret is the last call: its operation, what it found      *)
(* (ret.pre), what it raised and what it returned.                          *)
(***************************************************************************)
\* the entry the last ExtractFile was about
RetEntry == m_entries[ret.index + 1]

\* the last call was an ExtractFile that returned
Extracted == ret.op = "ExtractFile" /\ ret.exc = "none"

\* the bytes ExtractFileByIndex assembles for an entry before any decoding:
\* the extraction of the same entry with its name taken away
Assembled(index) ==
    ExtractFileByIndex(index, NewStream, disk, m_header,
                       [m_entries EXCEPT ![index + 1].name = <<>>], m_z_lengths, "none")

\* C1 as the spec states it: every successful extraction of an entry, those
\* with an SNG name included, returns exactly uncompressed_size bytes.
C1_Original == Extracted => Len(ret.data) = RetEntry.uncompressed_size

\* C1, amended: a successful extraction assembles exactly uncompressed_size
\* bytes; an entry without an SNG name returns them, an entry with an SNG
\* name returns what DecryptSng makes of them, of whatever length.
C1_Amended ==
    Extracted =>
        LET a == Assembled(ret.index) IN
        /\ a.exc = "none"
        /\ Len(a.data) = RetEntry.uncompressed_size
        /\ IF IsSngName(RetEntry.name) /\ RetEntry.uncompressed_size # 0
           THEN \E ub \in UBChoices :
                    /\ DecryptSng(a.data, ub).exc = "none"
                    /\ DecryptSng(a.data, ub).data = ret.data
           ELSE ret.data = a.data

\* an SNG entry was extracted and its bytes are not uncompressed_size many
C1_Witness ==
    /\ Extracted
    /\ IsSngName(RetEntry.name)
    /\ ret.data # <<>>
    /\ Len(ret.data) # RetEntry.uncompressed_size

\* the last call was an ExtractAll that got to its loop and came back
LoopDone == ret.op = "ExtractAll" /\ ret.exc \in {"none", "PsarcException"}

\* the indices of the named entries, in TOC order
NamedInOrder ==
    SelectSeq([i \in 1..Len(m_entries) |-> i - 1], LAMBDA i : m_entries[i + 1].name # <<>>)

FailedIndices == {ret.failed[k].index : k \in 1..Len(ret.failed)}

WrittenIndices == {ret.written[k].index : k \in 1..Len(ret.written)}

C3_OpenNoOp ==
    [][(m_is_open /\ ret'.op = "Open") =>
           /\ m_header' = m_header
           /\ m_entries' = m_entries
           /\ m_file_map' = m_file_map
           /\ m_z_lengths' = m_z_lengths
           /\ m_file' = m_file
           /\ m_is_open']_vars

\* Open was called on an open archive
C3_Witness == ret.op = "Open" /\ ret.pre.is_open /\ m_is_open

\* the handle released, the tables empty, IsOpen() false
Closed ==
    /\ m_file = NoFile
    /\ m_entries = <<>>
    /\ m_file_map = EmptyMap
    /\ m_z_lengths = <<>>
    /\ ~IsOpen

\* C4: after Close, whatever the state it was called in, the handle is
\* released, the entry table, the name map and the chunk-length table are
\* empty and IsOpen() is false; a Close after a Close changes nothing.
C4_Close ==
    /\ [](ret.op = "Close" => Closed)
    /\ [][(ret.op = "Close" /\ ret'.op = "Close") =>
              UNCHANGED <<others, disk, m_file, m_header, m_entries, m_z_lengths, m_file_map,
                          m_is_open>>]_vars

\* Close was called after a failed Open that left entries and chunk lengths
C4_Witness ==
    /\ ret.op = "Close"
    /\ ~ret.pre.is_open
    /\ ret.pre.entries > 0
    /\ ret.pre.z_lengths > 0

\* C5 as the spec states it: whatever a public operation raises is a
\* PsarcException (a crash of the process is not counted as an error raised).
C5_OnlyPsarcException == ret.exc \notin {"none", "SIGSEGV"} => ret.exc = "PsarcException"

\* C6 as the spec states it: an archive is opened only when toc_entry_size
\* is congruent to 20 modulo 2 and b = (toc_entry_size - 20) / 2 is in 1..8.
C6_EntrySize ==
    (ret.op = "Open" /\ ret.exc = "none") =>
        /\ m_header.toc_entry_size % 2 = 0
        /\ (m_header.toc_entry_size - 20) \div 2 \in 1..8

\* the number of block_size blocks covering size bytes (with no block size,
\* no number of blocks covers a byte: every byte asks for one)
BlocksNeeded(size, block_size) ==
    IF size = 0 THEN 0
    ELSE IF block_size = 0 THEN size
    ELSE (size + block_size - 1) \div block_size

\* C7 as the spec states it: after a successful Open the entry table has
\* num_files entries and every entry's chunks lie inside the chunk-length
\* table.
C7_ChunkBound ==
    (ret.op = "Open" /\ ret.exc = "none") =>
        /\ Len(m_entries) = m_header.num_files
        /\ \A i \in 1..Len(m_entries) :
               m_entries[i].start_chunk_index
                   + BlocksNeeded(m_entries[i].uncompressed_size, m_header.block_size)
               <= Len(m_z_lengths)

\* the last call was an Open that opened the archive
Opened == ret.op = "Open" /\ ret.exc = "none" /\ ~ret.pre.is_open

\* the names manifest of the archive: the bytes of entry 0
ManifestText ==
    ExtractFileByIndex(0, NewStream, disk, m_header, m_entries, m_z_lengths, "none").data

IsWhiteSpace(c) == c \in {32, 9, 13, 10}

\* the places <<p, q>> of the trimmed non-empty lines of text: text[p..q]
\* holds no line feed, starts and ends with a character that is no white
\* space, and only white space stands between it and the line feeds (or the
\* ends of the text) around it
TrimmedLines(text) ==
    {pq \in (1..Len(text)) \X (1..Len(text)) :
        /\ pq[1] <= pq[2]
        /\ ~IsWhiteSpace(text[pq[1]])
        /\ ~IsWhiteSpace(text[pq[2]])
        /\ \A k \in pq[1]..pq[2] : text[k] # 10
        /\ \A k \in 1..(pq[1] - 1) :
               (\A j \in k..(pq[1] - 1) : text[j] # 10) => IsWhiteSpace(text[k])
        /\ \A k \in (pq[2] + 1)..Len(text) :
               (\A j \in (pq[2] + 1)..k : text[j] # 10) => IsWhiteSpace(text[k])}

\* the i-th of them, in the order of the text
NthLine(text, i) ==
    LET lines == TrimmedLines(text)
        pq    == CHOOSE x \in lines : Cardinality({y \in lines : y[1] < x[1]}) = i - 1
    IN SubSeq(text, pq[1], pq[2])

\* C8: after an Open that opened the archive, entry 0 is named
\* "NamesBlock.bin" and entry i >= 1 by the i-th trimmed non-empty line of
\* the manifest; lines beyond the entries name nothing; entries beyond the
\* lines have no name, are not in GetFileList() and count in GetFileCount().
C8_Names ==
    Opened =>
        LET text  == ManifestText
            lines == Cardinality(TrimmedLines(text))
            named == Min(Len(m_entries), 1 + lines)
        IN /\ m_entries[1].name = NamesBlockBin
           /\ \A i \in 1..(Len(m_entries) - 1) :
                  m_entries[i + 1].name = IF i <= lines THEN NthLine(text, i) ELSE <<>>
           /\ GetFileList(m_entries) = [k \in 1..named |-> m_entries[k].name]
           /\ GetFileCount(m_entries) = m_header.num_files
           /\ \A name \in DOMAIN m_file_map : \E k \in 1..named : m_entries[k].name = name

\* an archive was opened whose manifest names its entry 1 and not its entry 2
C8_Witness ==
    /\ Opened
    /\ Len(m_entries) >= 3
    /\ m_entries[2].name # <<>>
    /\ m_entries[3].name = <<>>
    /\ Len(GetFileList(m_entries)) < GetFileCount(m_entries)

\* the last Open raised msg having read pos bytes of the file: the archive
\* is not open, no entry and no chunk length was added
Rejected(msg, pos) ==
    /\ ret.exc = "PsarcException"
    /\ ret.msg = msg
    /\ ~IsOpen
    /\ m_file.pos = pos
    /\ Len(m_entries) = ret.pre.entries
    /\ Len(m_z_lengths) = ret.pre.z_lengths
    /\ m_file_map = EmptyMap

\* C9: an Open of a closed archive whose file can be opened raises "wrong
\* magic number" when the first four bytes are not "PSAR", having read those
\* four bytes only, and "Unsupported PSARC version" when the version is not
\* 1.4, having read the 32 header bytes only; either way no entry and no
\* chunk length is added and the archive is not open.
C9_Header ==
    (ret.op = "Open" /\ ~ret.pre.is_open /\ ret.msg # "Failed to open file") =>
        /\ (Len(disk) >= 4 /\ Take(disk, 4) # <<80, 83, 65, 82>>) =>
               Rejected("Invalid PSARC file: wrong magic number", 4)
        /\ (/\ Len(disk) >= 32
            /\ Take(disk, 4) = <<80, 83, 65, 82>>
            /\ SubSeq(disk, 5, 8) # <<0, 1, 0, 4>>) =>
               Rejected("Unsupported PSARC version", 32)

\* an Open ended on a version that is not 1.4
C9_Witness ==
    /\ ret.op = "Open"
    /\ ret.msg = "Unsupported PSARC version"
    /\ SubSeq(disk, 5, 8) = <<0, 1, 0, 3>>

\* chunk j >= 1 of the entry of the last ExtractFile, when the chunks before
\* it are stored as they are: where it starts in the output, its length in
\* the chunk-length table, its bytes in the file
RawBefore(j) ==
    SumSeq([m \in 1..(j - 1) |-> m_z_lengths[RetEntry.start_chunk_index + m]])

RawLength(j) == m_z_lengths[RetEntry.start_chunk_index + j]

RawChunk(j) == Slice(disk, RetEntry.offset + RawBefore(j), RawLength(j))

\* chunk j is asked for, is a compressed chunk that lies in the file, and
\* its decompression returns nothing
IsRaw(j) ==
    /\ RetEntry.start_chunk_index + j <= Len(m_z_lengths)
    /\ RawBefore(j) < RetEntry.uncompressed_size
    /\ RawLength(j) # 0
    /\ RetEntry.offset + RawBefore(j) + RawLength(j) <= Len(disk)
    /\ DecompressChunk(m_header.compression_method, RawChunk(j),
                       Min(RetEntry.uncompressed_size - RawBefore(j), m_header.block_size))
           = <<>>

\* the chunks 1..j of the entry of the last ExtractFile all are such chunks
RawRun(j) ==
    /\ ret.op = "ExtractFile"
    /\ ret.index >= 0
    /\ ret.pre.file_ok
    /\ ~IsSngName(RetEntry.name)
    /\ \A m \in 1..j : IsRaw(m)

\* C10: a compressed chunk whose decompression returns nothing is consumed
\* and its z_len bytes stand in the output as they are in the file, at the
\* place where the output of the chunks before it ends (cut at
\* uncompressed_size); the extraction raises nothing when such chunks fill
\* the entry.
C10_RawFallback ==
    \A j \in 1..Len(m_z_lengths) :
        RawRun(j) =>
            /\ m_file.pos >= RetEntry.offset + RawBefore(j) + RawLength(j)
            /\ RawBefore(j) + RawLength(j) >= RetEntry.uncompressed_size => ret.exc = "none"
            /\ ret.exc = "none" =>
                   SubSeq(ret.data, RawBefore(j) + 1,
                          Min(RetEntry.uncompressed_size, RawBefore(j) + RawLength(j)))
                       = Take(RawChunk(j), RetEntry.uncompressed_size - RawBefore(j))

\* an entry of two chunks that do not decompress was extracted
C10_Witness == RawRun(2) /\ ret.exc = "none" /\ RawLength(2) < RetEntry.uncompressed_size

\* the bytes of an SNG entry after the AES-CTR step: what DecryptSng returns
\* for the same entry without its compressed flag
SngPayload(data) == DecryptSng([data EXCEPT ![5] = (data[5] \div 2) * 2], "none").data

\* an SNG entry flagged compressed whose payload holds the size and a stream
\* that inflates under none of the window sizes DecompressZlib tries
InnerStreamBroken(data) ==
    /\ Len(data) >= 24
    /\ ReadLE32(data, 0) = g_sng_magic
    /\ data[5] % 2 = g_sng_compressed_flag
    /\ Len(SngPayload(data)) >= 4
    /\ \A k \in 1..Len(window_bits) :
           ~Inflate(Drop(SngPayload(data), 4), window_bits[k],
                    ReadLE32(SngPayload(data), 0)).end

\* C13: the extraction of an SNG entry that is flagged compressed and whose
\* inner stream cannot be inflated fails with an exception: it does not
\* return, with an empty byte sequence or with anything else
C13_InnerInflate ==
    (ret.op = "ExtractFile" /\ ret.index >= 0) =>
        LET Refused(a) ==
                (/\ IsSngName(RetEntry.name)
                 /\ RetEntry.uncompressed_size # 0
                 /\ a.exc = "none"
                 /\ InnerStreamBroken(a.data))
                => ret.exc = "PsarcException"
        IN Refused(Assembled(ret.index))

(***************************************************************************)
(* SngParser::Parse (src/src/sng_parser.cpp).  The buffer is a sequence of *)
(* bytes; the BinaryReader is its position, the exception it has thrown,   *)
(* the section readers called so far and the sizes of the vectors read.    *)
(* The values of the fields other than the counts do not steer the parse:  *)
(* a field is read by checking that it is there and stepping over it.      *)
(***************************************************************************)
\* the sections of an SNG, by the member of sng::SngData they fill
BeforeSymbols == <<"bpms", "phrases", "chords", "chord_notes", "vocals">>

Symbols == <<"symbols_headers", "symbols_textures", "symbol_definitions">>

AfterSymbols ==
    <<"phrase_iterations", "phrase_extra_infos", "nlinked_difficulties", "actions",
      "events", "tones", "dnas", "sections", "arrangements", "metadata">>

\* many elements: an allocation of this many may fail
MaxAlloc == 16777215

\* BinaryReader(data); mem: whether the allocation of more than MaxAlloc
\* elements succeeds ("ok") or throws ("bad_alloc")
Reader0(mem) ==
    [pos |-> 0, exc |-> "none", msg |-> <<>>, order |-> <<>>, count |-> 0, top |-> 0,
     sng |-> <<>>, mem |-> mem]

\* a faulty EnsureAvailable: a read that ends at the end of the buffer is
\* refused
EnsureOneMore(rd, size, bytes) ==
    IF rd.pos + bytes >= size
    THEN [rd EXCEPT !.exc = "PsarcException",
                    !.msg = <<"read past end", rd.pos, bytes, size - rd.pos>>]
    ELSE rd

\* BinaryReader::EnsureAvailable: the reader after the check
EnsureAvailable(rd, size, bytes) ==
    IF rd.pos + bytes > size
    THEN [rd EXCEPT !.exc = "PsarcException",
                    !.msg = <<"read past end", rd.pos, bytes, size - rd.pos>>]
    ELSE rd

\* BinaryReader::ReadInt32's value at offset p: little-endian, signed
Int32At(data, p) ==
    data[p + 1] + data[p + 2] * 256 + data[p + 3] * 65536
    + (IF data[p + 4] >= 128 THEN data[p + 4] - 256 ELSE data[p + 4]) * 16777216

\* the reads of fields of fs[1], fs[2], ... bytes, one after the other: all
\* of them, or the throw of the first one that is not there
ReadFields(rd, size, fs) ==
    IF rd.exc # "none" THEN rd
    ELSE IF rd.pos + SumSeq(fs) <= size THEN [rd EXCEPT !.pos = @ + SumSeq(fs)]
    ELSE LET Before(i) == SumSeq(SubSeq(fs, 1, i - 1))
             first == CHOOSE i \in 1..Len(fs) :
                          /\ rd.pos + Before(i) + fs[i] > size
                          /\ \A j \in 1..(i - 1) : rd.pos + Before(j) + fs[j] <= size
         IN EnsureAvailable([rd EXCEPT !.pos = @ + Before(first)], size, fs[first])

RECURSIVE ReadElements(_, _, _, _)
\* for (auto& e : v): n elements of fields fs
ReadElements(rd, size, n, fs) ==
    IF rd.exc # "none" \/ n = 0 THEN rd
    ELSE ReadElements(ReadFields(rd, size, fs), size, n - 1, fs)

\* count = reader.ReadInt32() and std::vector<T> v(count) or v.resize(count):
\* a negative count is a size above max_size()
ReadCount(rd, data) ==
    LET Sized(r, count) ==
            IF count < 0
            THEN [r EXCEPT !.exc = "std::length_error", !.msg = <<"vector too long">>]
            ELSE IF count > MaxAlloc /\ r.mem = "bad_alloc"
            THEN [r EXCEPT !.exc = "std::bad_alloc", !.msg = <<"allocation failed">>]
            ELSE [r EXCEPT !.count = count]
        Checked(r) ==
            IF r.exc # "none" THEN r
            ELSE Sized([r EXCEPT !.pos = @ + 4], Int32At(data, r.pos))
    IN IF rd.exc # "none" THEN rd ELSE Checked(EnsureAvailable(rd, Len(data), 4))

\* the size of the vector a section reader returns
Top(rd) == IF rd.exc # "none" THEN rd ELSE [rd EXCEPT !.top = rd.count]

\* a vector of elements of fixed fields inside an element
ReadVector(rd, data, fs) ==
    LET Body(r) == ReadElements(r, Len(data), r.count, fs)
    IN Body(ReadCount(rd, data))

\* a section that is a vector of elements of fixed fields
ReadSection(rd, data, fs) ==
    LET Body(r) == ReadElements(r, Len(data), r.count, fs)
    IN Body(Top(ReadCount(rd, data)))

RECURSIVE Repeat(_, _)
Repeat(fs, n) == IF n = 0 THEN <<>> ELSE fs \o Repeat(fs, n - 1)

\* ReadBendValue
BendValue == <<4, 4, 2, 1, 1>>

\* Section 1: BPM
ReadBpms(rd, data) == ReadSection(rd, data, <<4, 2, 2, 4, 4>>)

\* Section 2: Phrases
ReadPhrases(rd, data) == ReadSection(rd, data, <<1, 1, 1, 1, 4, 4, 32>>)

\* Section 3: Chords
ReadChords(rd, data) ==
    ReadSection(rd, data, <<4>> \o Repeat(<<1>>, 6) \o Repeat(<<1>>, 6) \o Repeat(<<4>>, 6)
                          \o <<32>>)

RECURSIVE ReadBendData(_, _, _)
\* for (auto& bd : cn.bend_data): 32 bend values, used_count, resize(used_count)
ReadBendData(rd, data, n) ==
    IF rd.exc # "none" \/ n = 0 THEN rd
    ELSE ReadBendData(ReadCount(ReadElements(rd, Len(data), 32, BendValue), data),
                      data, n - 1)

RECURSIVE ReadChordNotesLoop(_, _, _)
ReadChordNotesLoop(rd, data, n) ==
    IF rd.exc # "none" \/ n = 0 THEN rd
    ELSE ReadChordNotesLoop(
             ReadFields(ReadBendData(ReadFields(rd, Len(data), Repeat(<<4>>, 6)), data, 6),
                        Len(data),
                        Repeat(<<1>>, 6) \o Repeat(<<1>>, 6) \o Repeat(<<2>>, 6)),
             data, n - 1)

\* Section 4: ChordNotes
ReadChordNotes(rd, data) ==
    LET Body(r) == ReadChordNotesLoop(r, data, r.count)
    IN Body(Top(ReadCount(rd, data)))

\* Section 5: Vocals
ReadVocals(rd, data) == ReadSection(rd, data, <<4, 4, 4, 48>>)

\* Section 6: SymbolsHeaders
ReadSymbolsHeaders(rd, data) == ReadSection(rd, data, Repeat(<<4>>, 8))

\* Section 7: SymbolsTextures
ReadSymbolsTextures(rd, data) == ReadSection(rd, data, <<128, 4, 4, 4, 4>>)

\* Section 8: SymbolDefinitions
ReadSymbolDefinitions(rd, data) ==
    ReadSection(rd, data, <<12>> \o Repeat(<<4>>, 4) \o Repeat(<<4>>, 4))

\* Section 9: PhraseIterations
ReadPhraseIterations(rd, data) == ReadSection(rd, data, <<4, 4, 4>> \o Repeat(<<4>>, 3))

\* Section 10: PhraseExtraInfos
ReadPhraseExtraInfos(rd, data) == ReadSection(rd, data, <<4, 4, 4, 1, 2, 1>>)

RECURSIVE ReadNLinkedLoop(_, _, _)
ReadNLinkedLoop(rd, data, n) ==
    IF rd.exc # "none" \/ n = 0 THEN rd
    ELSE ReadNLinkedLoop(ReadVector(ReadFields(rd, Len(data), <<4>>), data, <<4>>),
                         data, n - 1)

\* Section 11: NLinkedDifficulties
ReadNLinkedDifficulties(rd, data) ==
    LET Body(r) == ReadNLinkedLoop(r, data, r.count)
    IN Body(Top(ReadCount(rd, data)))

\* Section 12: Actions
ReadActions(rd, data) == ReadSection(rd, data, <<4, 256>>)

\* Section 13: Events
ReadEvents(rd, data) == ReadSection(rd, data, <<4, 256>>)

\* Section 14: Tones
ReadTones(rd, data) == ReadSection(rd, data, <<4, 4>>)

\* Section 15: DNAs
ReadDnas(rd, data) == ReadSection(rd, data, <<4, 4>>)

\* Section 16: Sections
ReadSections(rd, data) ==
    ReadSection(rd, data, <<32, 4, 4, 4, 4, 4>> \o Repeat(<<1>>, 36))

\* the fields of a Note before bend_count
NoteFields ==
    <<4, 4, 4, 4, 1, 1, 1, 1, 4, 4, 4, 4, 2, 2, 2, 2, 2, 1, 1, 1, 1, 1, 1, 1, 2, 4, 4>>

RECURSIVE ReadNotes(_, _, _)
\* for (auto& note : arr.notes) note = ReadNote(reader)
ReadNotes(rd, data, n) ==
    IF rd.exc # "none" \/ n = 0 THEN rd
    ELSE ReadNotes(ReadVector(ReadFields(rd, Len(data), NoteFields), data, BendValue),
                   data, n - 1)

\* one Arrangement: difficulty, anchors, anchor extensions, the two
\* fingerprint arrays, notes, the three per-arrangement arrays
ReadArrangement(rd, data) ==
    LET Tail3(r) == ReadVector(ReadVector(ReadVector(r, data, <<4>>), data, <<4>>),
                               data, <<4>>)
        Notes(r) == Tail3(ReadNotes(r, data, r.count))
        Prints(r) ==
            Notes(ReadCount(
                ReadVector(ReadVector(r, data, <<4, 4, 4, 4, 4>>), data, <<4, 4, 4, 4, 4>>),
                data))
        Anchors(r) ==
            Prints(ReadVector(ReadVector(r, data, <<4, 4, 4, 4, 4, 4, 4>>),
                              data, <<4, 1, 4, 2, 1>>))
    IN Anchors(ReadFields(rd, Len(data), <<4>>))

RECURSIVE ReadArrangementsLoop(_, _, _)
ReadArrangementsLoop(rd, data, n) ==
    IF rd.exc # "none" \/ n = 0 THEN rd
    ELSE ReadArrangementsLoop(ReadArrangement(rd, data), data, n - 1)

\* Section 17: Arrangements
ReadArrangements(rd, data) ==
    LET Body(r) == ReadArrangementsLoop(r, data, r.count)
    IN Body(Top(ReadCount(rd, data)))

\* Section 18: Metadata; its vector is the tuning
ReadMetadata(rd, data) ==
    LET Rest(r) == ReadFields(r, Len(data), <<4, 4, 4>>)
    IN Rest(ReadSection(ReadFields(rd, Len(data), <<8, 8, 8, 8, 4, 4, 1, 32, 2, 4>>),
                        data, <<2>>))

\* sng::SngData sng, by the sizes of its vectors (metadata: of its tuning)
SngData0 ==
    [bpms |-> 0, phrases |-> 0, chords |-> 0, chord_notes |-> 0, vocals |-> 0,
     symbols_headers |-> 0, symbols_textures |-> 0, symbol_definitions |-> 0,
     phrase_iterations |-> 0, phrase_extra_infos |-> 0, nlinked_difficulties |-> 0,
     actions |-> 0, events |-> 0, tones |-> 0, dnas |-> 0, sections |-> 0,
     arrangements |-> 0, metadata |-> 0]

\* sng.<name> = Read<Name>(reader)
Call(rd, data, name, Rd(_, _)) ==
    LET Store(r) == IF r.exc # "none" THEN r ELSE [r EXCEPT !.sng[name] = r.top]
    IN IF rd.exc # "none" THEN rd
       ELSE Store(Rd([rd EXCEPT !.order = Append(@, name)], data))

\* the three symbol sections, one after the other
ReadSymbols(rd, data) ==
    Call(Call(Call(rd, data, "symbols_headers", ReadSymbolsHeaders),
              data, "symbols_textures", ReadSymbolsTextures),
         data, "symbol_definitions", ReadSymbolDefinitions)

\* a faulty IfVocals: the symbol sections are read whatever the vocals are
AlwaysSymbols(rd, data) == ReadSymbols(rd, data)

\* if (!sng.vocals.empty()) { ... }
IfVocals(rd, data) ==
    IF rd.exc = "none" /\ rd.sng.vocals # 0 THEN ReadSymbols(rd, data) ELSE rd

\* a faulty Exact: what is left of the buffer is ignored
Lenient(rd, size) == rd

\* if (reader.Position() != reader.Size()) throw ...
Exact(rd, size) ==
    IF rd.exc # "none" THEN rd
    ELSE IF rd.pos # size
    THEN [rd EXCEPT !.exc = "PsarcException", !.msg = <<"bytes remaining", size - rd.pos>>]
    ELSE rd

\* SngParser::Parse: the reader at the return or at the throw; sng is the
\* value returned when exc = "none"
Parse(data, mem) ==
    IF data = <<>>
    THEN [Reader0(mem) EXCEPT !.exc = "PsarcException", !.msg = <<"SNG data is empty">>]
    ELSE LET Start == [Reader0(mem) EXCEPT !.sng = SngData0]
             Vocals(r) ==
                 Call(Call(Call(Call(Call(r, data, "bpms", ReadBpms),
                                     data, "phrases", ReadPhrases),
                                data, "chords", ReadChords),
                           data, "chord_notes", ReadChordNotes),
                      data, "vocals", ReadVocals)
             Tones(r) ==
                 Call(Call(Call(Call(Call(Call(r,
                                     data, "phrase_iterations", ReadPhraseIterations),
                                     data, "phrase_extra_infos", ReadPhraseExtraInfos),
                                data, "nlinked_difficulties", ReadNLinkedDifficulties),
                           data, "actions", ReadActions),
                      data, "events", ReadEvents),
                 data, "tones", ReadTones)
             Metadata(r) ==
                 Call(Call(Call(Call(r, data, "dnas", ReadDnas),
                                data, "sections", ReadSections),
                           data, "arrangements", ReadArrangements),
                      data, "metadata", ReadMetadata)
         IN Exact(Metadata(Tones(IfVocals(Vocals(Start), data))), Len(data))

(***************************************************************************)
(* The buffers of SngInit: SNG files as a writer lays them out, every      *)
(* field zero but the counts, then damaged.                                *)
(***************************************************************************)
\* a vector of n elements of size bytes
EncVector(n, size) == LE32(n) \o Zeros(n * size)

\* a note with bends bend values
EncNote(bends) == Zeros(SumSeq(NoteFields)) \o EncVector(bends, SumSeq(BendValue))

\* an arrangement: a.notes[i] is the number of bend values of note i
EncArrangement(a) ==
    Zeros(4) \o EncVector(a.anchors, 28) \o EncVector(a.extensions, 12)
    \o EncVector(a.handshapes, 20) \o EncVector(a.arpeggios, 20)
    \o LE32(Len(a.notes)) \o Flatten([i \in 1..Len(a.notes) |-> EncNote(a.notes[i])])
    \o EncVector(a.phrases, 4) \o EncVector(a.iterations, 4) \o EncVector(a.iterations, 4)

\* a ChordNotes element: six masks, six times 32 bend values and used_count,
\* the slides and the vibratos
EncChordNotes == Zeros(24) \o Zeros(6 * (32 * 12 + 4)) \o Zeros(24)

\* the file of f; f.symbols: whether the three symbol sections are written
EncSngData(f) ==
    EncVector(f.bpms, 16) \o EncVector(f.phrases, 44) \o EncVector(f.chords, 72)
    \o LE32(f.chord_notes) \o Flatten([i \in 1..f.chord_notes |-> EncChordNotes])
    \o EncVector(f.vocals, 60)
    \o (IF f.symbols
        THEN EncVector(f.symbols_headers, 32) \o EncVector(f.symbols_textures, 144)
             \o EncVector(f.symbol_definitions, 44)
        ELSE <<>>)
    \o EncVector(f.phrase_iterations, 24) \o EncVector(f.phrase_extra_infos, 16)
    \o LE32(Len(f.nlinked_difficulties))
    \o Flatten([i \in 1..Len(f.nlinked_difficulties) |->
                   Zeros(4) \o EncVector(f.nlinked_difficulties[i], 4)])
    \o EncVector(f.actions, 260) \o EncVector(f.events, 260) \o EncVector(f.tones, 8)
    \o EncVector(f.dnas, 8) \o EncVector(f.sections, 88)
    \o LE32(Len(f.arrangements))
    \o Flatten([i \in 1..Len(f.arrangements) |-> EncArrangement(f.arrangements[i])])
    \o Zeros(79) \o EncVector(f.tuning, 2) \o Zeros(12)

Arrangement0 ==
    [anchors |-> 0, extensions |-> 0, handshapes |-> 0, arpeggios |-> 0, notes |-> <<>>,
     phrases |-> 0, iterations |-> 0]

\* the instrumental SNG with nothing in it
Bare ==
    [bpms |-> 0, phrases |-> 0, chords |-> 0, chord_notes |-> 0, vocals |-> 0,
     symbols |-> FALSE, symbols_headers |-> 0, symbols_textures |-> 0,
     symbol_definitions |-> 0, phrase_iterations |-> 0, phrase_extra_infos |-> 0,
     nlinked_difficulties |-> <<>>, actions |-> 0, events |-> 0, tones |-> 0, dnas |-> 0,
     sections |-> 0, arrangements |-> <<>>, tuning |-> 6]

\* the largest number of stray bytes after an SNG
MaxStray == 2

SngShapes ==
    {Bare,
     [Bare EXCEPT !.bpms = 2],
     [Bare EXCEPT !.phrases = 1],
     [Bare EXCEPT !.chords = 1],
     [Bare EXCEPT !.chord_notes = 1],
     [Bare EXCEPT !.phrase_iterations = 1, !.phrase_extra_infos = 1],
     [Bare EXCEPT !.nlinked_difficulties = <<0, 2>>],
     [Bare EXCEPT !.actions = 1, !.events = 1],
     [Bare EXCEPT !.tones = 1, !.dnas = 2, !.sections = 1],
     [Bare EXCEPT !.tuning = 0],
     [Bare EXCEPT !.arrangements = <<Arrangement0>>],
     [Bare EXCEPT !.arrangements =
         <<[Arrangement0 EXCEPT !.anchors = 1, !.extensions = 1, !.handshapes = 1,
                                !.arpeggios = 2, !.notes = <<0, 2>>, !.phrases = 1,
                                !.iterations = 1],
           Arrangement0>>],
     [Bare EXCEPT !.vocals = 1, !.symbols = TRUE],
     [Bare EXCEPT !.vocals = 2, !.symbols = TRUE, !.symbols_headers = 1,
                  !.symbols_textures = 1, !.symbol_definitions = 2],
     \* the symbol sections of a file without vocals, and vocals without them
     [Bare EXCEPT !.symbols = TRUE],
     [Bare EXCEPT !.symbols = TRUE, !.symbols_headers = 1],
     [Bare EXCEPT !.vocals = 1],
     [Bare EXCEPT !.vocals = 1, !.phrase_iterations = 1]}

\* a file whose first count is c
WithCount(c) == c \o Drop(EncSngData(Bare), 4)

SngBuffers ==
    {EncSngData(f) \o Zeros(k) : f \in SngShapes, k \in 0..MaxStray}
    \cup {Take(EncSngData(f), Len(EncSngData(f)) - k) : f \in SngShapes, k \in {1, 13}}
    \cup {WithCount(c) : c \in {<<255, 255, 255, 255>>, <<0, 0, 0, 128>>,
                                <<255, 255, 255, 127>>, <<1, 0, 0, 0>>}}
    \cup {<<>>, <<0>>, <<0, 0, 0, 0>>}

SngIdle ==
    /\ disk = <<>>
    /\ m_file = NoFile
    /\ m_header = Header0
    /\ m_entries = <<>>
    /\ m_z_lengths = <<>>
    /\ m_file_map = EmptyMap
    /\ m_is_open = FALSE
    /\ ret = Ret0

psarc == <<disk, m_file, m_header, m_entries, m_z_lengths, m_file_map, m_is_open, ret>>

SngInit ==
    /\ \E d \in SngBuffers : parser = [data |-> d, done |-> FALSE, r |-> Reader0("ok")]
    /\ SngIdle
    /\ writer = Unused
    /\ converter = Unused
    /\ threads = Unused

\* one call of SngParser::Parse on the buffer
CallParse(mem) ==
    /\ ~parser.done
    /\ parser' = [parser EXCEPT !.done = TRUE, !.r = Parse(parser.data, mem)]
    /\ UNCHANGED <<psarc, writer, converter, threads>>

SngNext == \E mem \in {"ok", "bad_alloc"} : CallParse(mem)

SngSpec == SngInit /\ [][SngNext]_vars

\* C11: Parse returns only with the reader at the end of the buffer, and a
\* buffer that is a well-formed SNG followed by k stray bytes fails with
\* "k bytes remaining"
C11_Terminal ==
    parser.done =>
        /\ parser.r.exc = "none" => parser.r.pos = Len(parser.data)
        /\ \A k \in 1..MaxStray :
               (/\ Len(parser.data) > k
                /\ Parse(Take(parser.data, Len(parser.data) - k), "ok").exc = "none")
               => /\ parser.r.exc = "PsarcException"
                  /\ parser.r.msg = <<"bytes remaining", k>>

\* one stray byte after a well-formed SNG was refused
C11_Witness ==
    /\ parser.done
    /\ parser.r.msg = <<"bytes remaining", 1>>
    /\ Parse(Take(parser.data, Len(parser.data) - 1), "ok").exc = "none"

\* where the vocals section of a file starts: after the bpms, the phrases,
\* the chords and the chord notes
VocalsAt(data) ==
    LET Skip(p, size) == p + 4 + size * Int32At(data, p)
    IN Skip(Skip(Skip(Skip(0, 16), 44), 72), 2376)

IsPrefix(s, t) == Len(s) <= Len(t) /\ SubSeq(t, 1, Len(s)) = s

\* C12: the section readers are called in the fixed order, the three symbol
\* sections directly after vocals exactly when the vocals read are not empty
C12_SectionOrder ==
    parser.done /\ parser.r.order # <<>> =>
        LET read == parser.r.order
            full == IF parser.r.sng.vocals # 0
                    THEN BeforeSymbols \o Symbols \o AfterSymbols
                    ELSE BeforeSymbols \o AfterSymbols
        IN /\ IsPrefix(read, full)
           /\ parser.r.exc = "none" => read = full
           /\ parser.r.exc = "none" =>
                  parser.r.sng.vocals = Int32At(parser.data, VocalsAt(parser.data))

\* a file with vocals was parsed, its symbol sections read
C12_Witness ==
    /\ parser.done
    /\ parser.r.exc = "none"
    /\ parser.r.sng.vocals # 0
    /\ parser.r.order = BeforeSymbols \o Symbols \o AfterSymbols

(***************************************************************************)
(* SngXmlWriter::Write (src/src/sng_xml_writer.cpp).  The document is a    *)
(* tree of nodes [tag, attrs, kids, text]: attrs the attributes in the     *)
(* order they are appended, each <<name, value>>; text <<>> or <<value>>.  *)
(* A float is modelled by its number of thousandths, an optional by <<>>   *)
(* or <<value>>, a note mask by the set of the NoteMask flags set in it.   *)
(***************************************************************************)
Node(tag, attrs, kids) == [tag |-> tag, attrs |-> attrs, kids |-> kids, text |-> <<>>]

\* append_child(tag).text().set(value)
TextNode(tag, value) == [tag |-> tag, attrs |-> <<>>, kids |-> <<>>, text |-> <<value>>]

\* if (cond) node.append_attribute(name) = value
When(cond, name, value) == IF cond THEN <<<<name, value>>>> ELSE <<>>

\* FormatFloat: std::format("{:.3f}", value)
FormatFloat(value) == <<"%.3f", value>>

\* FormatPlainFloat: operator<< in the classic locale
FormatPlainFloat(value) == <<"%g", value>>

\* Has(mask, flag)
Has(mask, flag) == flag \in mask

\* static_cast<uint8_t> of an int8_t
ToUInt8(v) == IF v < 0 THEN v + 256 ELSE v

\* BinaryReader::ReadInt8: static_cast<int8_t> of the byte
ReadInt8(raw) == IF raw >= 128 THEN raw - 256 ELSE raw

\* ReadChords: (raw == 0xFF) ? int8_t{-1} : static_cast<int8_t>(raw)
ReadFretByte(raw) == IF raw = 255 THEN -1 ELSE ReadInt8(raw)

\* WriteVocalXml: the vocals node
WriteVocalXml(sng) ==
    Node("vocals", <<<<"count", Len(sng.vocals)>>>>,
         [i \in 1..Len(sng.vocals) |->
             Node("vocal", <<<<"time", FormatFloat(sng.vocals[i].time)>>,
                             <<"note", sng.vocals[i].note>>,
                             <<"length", FormatFloat(sng.vocals[i].length)>>,
                             <<"lyric", sng.vocals[i].lyric>>>>, <<>>)])

\* the attributes of arrangementProperties, which are also the keys of the
\* overlay's ArrangementProperties, and the member each one stands for
PropertyNames ==
    <<<<"represent", "represent">>, <<"bonusArr", "bonus_arr">>,
      <<"standardTuning", "standard_tuning">>,
      <<"nonStandardChords", "non_standard_chords">>, <<"barreChords", "barre_chords">>,
      <<"powerChords", "power_chords">>, <<"dropDPower", "drop_d_power">>,
      <<"openChords", "open_chords">>, <<"fingerPicking", "finger_picking">>,
      <<"pickDirection", "pick_direction">>, <<"doubleStops", "double_stops">>,
      <<"palmMutes", "palm_mutes">>, <<"harmonics", "harmonics">>,
      <<"pinchHarmonics", "pinch_harmonics">>, <<"hopo", "hopo">>,
      <<"tremolo", "tremolo">>, <<"slides", "slides">>,
      <<"unpitchedSlides", "unpitched_slides">>, <<"bends", "bends">>,
      <<"tapping", "tapping">>, <<"vibrato", "vibrato">>,
      <<"fretHandMutes", "fret_hand_mutes">>, <<"slapPop", "slap_pop">>,
      <<"twoFingerPicking", "two_finger_picking">>,
      <<"fifthsAndOctaves", "fifths_and_octaves">>, <<"syncopation", "syncopation">>,
      <<"bassPick", "bass_pick">>, <<"sustain", "sustain">>, <<"pathLead", "path_lead">>,
      <<"pathRhythm", "path_rhythm">>, <<"pathBass", "path_bass">>>>

PropertyMembers == {PropertyNames[i][2] : i \in 1..Len(PropertyNames)}

\* SngManifestArrangementProperties{}
ArrangementProperties0 == [m \in PropertyMembers |-> 0]

\* WriteArrangementProperties
WriteArrangementProperties(props) ==
    Node("arrangementProperties",
         [i \in 1..Len(PropertyNames) |-> <<PropertyNames[i][1], props[PropertyNames[i][2]]>>],
         <<>>)

\* WriteBendValues: the bendValues child, when there are bend values
WriteBendValues(bends) ==
    IF bends = <<>> THEN <<>>
    ELSE <<Node("bendValues", <<<<"count", Len(bends)>>>>,
                [i \in 1..Len(bends) |->
                    Node("bendValue",
                         <<<<"time", FormatFloat(bends[i].time)>>>>
                         \o When(bends[i].step # 0, "step", FormatFloat(bends[i].step)),
                         <<>>)])>>

\* WriteNoteFlags: the attributes it appends
WriteNoteFlags(note) ==
    When(Has(note.mask, "PARENT"), "linkNext", 1)
    \o When(Has(note.mask, "ACCENT"), "accent", 1)
    \o When(note.bend_values # <<>>, "bend", FormatPlainFloat(note.max_bend))
    \o When(Has(note.mask, "HAMMERON"), "hammerOn", 1)
    \o When(Has(note.mask, "HARMONIC"), "harmonic", 1)
    \o When(Has(note.mask, "HAMMERON") \/ Has(note.mask, "PULLOFF"), "hopo", 1)
    \o When(Has(note.mask, "IGNORE"), "ignore", 1)
    \o When(note.left_hand >= 0, "leftHand", note.left_hand)
    \o When(Has(note.mask, "MUTE"), "mute", 1)
    \o When(Has(note.mask, "PALMMUTE"), "palmMute", 1)
    \o When(Has(note.mask, "PLUCK"), "pluck", 1)
    \o When(Has(note.mask, "PULLOFF"), "pullOff", 1)
    \o When(Has(note.mask, "SLAP"), "slap", 1)
    \o When(Has(note.mask, "SLIDE") /\ note.slide_to >= 0, "slideTo", note.slide_to)
    \o When(Has(note.mask, "TREMOLO"), "tremolo", 1)
    \o When(Has(note.mask, "PINCHHARMONIC"), "harmonicPinch", 1)
    \o When(note.pick_direction > 0, "pickDirection", 1)
    \o When(Has(note.mask, "RIGHTHAND"), "rightHand", 1)
    \o When(Has(note.mask, "SLIDEUNPITCHEDTO") /\ note.slide_unpitch_to >= 0,
            "slideUnpitchTo", note.slide_unpitch_to)
    \o When(Has(note.mask, "TAP"), "tap", Max(0, note.tap))
    \o When(Has(note.mask, "VIBRATO") /\ note.vibrato > 0, "vibrato", note.vibrato)

\* WriteChordNoteFromTemplate: the chordNote children it appends, none or one
WriteChordNoteFromTemplate(sng, note, string_idx) ==
    IF note.chord_id < 0 \/ note.chord_id >= Len(sng.chords) THEN <<>>
    ELSE LET template_chord == sng.chords[note.chord_id + 1]
             sidx      == string_idx + 1
             raw_finger == ToUInt8(template_chord.fingers[sidx])
             left_hand == IF raw_finger = 255 THEN -1 ELSE raw_finger
             head      == <<<<"time", FormatFloat(note.time)>>, <<"string", string_idx>>,
                            <<"fret", template_chord.frets[sidx]>>>>
                          \o When(note.sustain > 0, "sustain", FormatFloat(note.sustain))
             Flags(cn_data) ==
                 LET mask == cn_data.mask[sidx] IN
                 When(Has(mask, "PARENT"), "linkNext", 1)
                 \o When(Has(mask, "ACCENT"), "accent", 1)
                 \o When(cn_data.bend_data[sidx] # <<>>, "bend", "0")
                 \o When(Has(mask, "HAMMERON"), "hammerOn", 1)
                 \o When(Has(mask, "HARMONIC"), "harmonic", 1)
                 \o When(Has(mask, "HAMMERON") \/ Has(mask, "PULLOFF"), "hopo", 1)
                 \o When(Has(mask, "IGNORE"), "ignore", 1)
                 \o When(left_hand # -1, "leftHand", left_hand)
                 \o When(Has(mask, "MUTE"), "mute", 1)
                 \o When(Has(mask, "PALMMUTE"), "palmMute", 1)
                 \o When(Has(mask, "PLUCK"), "pluck", 1)
                 \o When(Has(mask, "PULLOFF"), "pullOff", 1)
                 \o When(Has(mask, "SLAP"), "slap", 1)
                 \o When(Has(mask, "SLIDE") /\ cn_data.slide_to[sidx] >= 0,
                         "slideTo", cn_data.slide_to[sidx])
                 \o When(Has(mask, "TREMOLO"), "tremolo", 1)
                 \o When(Has(mask, "PINCHHARMONIC"), "harmonicPinch", 1)
                 \o When(Has(mask, "RIGHTHAND"), "rightHand", 1)
                 \o When(Has(mask, "SLIDEUNPITCHEDTO") /\ cn_data.slide_unpitch_to[sidx] >= 0,
                         "slideUnpitchTo", cn_data.slide_unpitch_to[sidx])
                 \o When(Has(mask, "VIBRATO") /\ cn_data.vibrato[sidx] > 0,
                         "vibrato", cn_data.vibrato[sidx])
         IN IF template_chord.frets[sidx] < 0 THEN <<>>
            ELSE IF note.chord_notes_id < 0 \/ note.chord_notes_id >= Len(sng.chord_notes)
            THEN <<Node("chordNote", head \o When(left_hand # -1, "leftHand", left_hand),
                        <<>>)>>
            ELSE <<Node("chordNote", head \o Flags(sng.chord_notes[note.chord_notes_id + 1]),
                        WriteBendValues(sng.chord_notes[note.chord_notes_id + 1]
                                            .bend_data[sidx]))>>

\* std::format("string{}", i), std::format("finger{}", i), std::format("fret{}", i)
StringN == <<"string0", "string1", "string2", "string3", "string4", "string5">>
FingerN == <<"finger0", "finger1", "finger2", "finger3", "finger4", "finger5">>
FretN == <<"fret0", "fret1", "fret2", "fret3", "fret4", "fret5">>

\* the elements of a sequence that satisfy a test, in their order
Filter(seq, Test(_)) == Flatten([i \in 1..Len(seq) |-> IF Test(seq[i]) THEN <<seq[i]>> ELSE <<>>])

\* a pointer is <<>> when it is nullptr and <<object>> when it points to one
NullPtr == <<>>

\* (manifest && manifest->field.has_value()) ? *manifest->field : fallback
ManifestOr(manifest, field, fallback) ==
    IF manifest # NullPtr /\ manifest[1][field] # <<>> THEN manifest[1][field][1]
    ELSE fallback

\* lines 352-357: the average tempo written
AverageTempo(manifest) ==
    IF manifest # NullPtr
    THEN (IF manifest[1].average_tempo # <<>> THEN manifest[1].average_tempo[1] ELSE 0)
    ELSE 120000

\* lines 663-681: the handshape views of a level, handshapes then arpeggios
HandShapeViews(arr) ==
    [i \in 1..(Len(arr.fingerprints_handshape) + Len(arr.fingerprints_arpeggio)) |->
        LET fp == IF i <= Len(arr.fingerprints_handshape)
                  THEN arr.fingerprints_handshape[i]
                  ELSE arr.fingerprints_arpeggio[i - Len(arr.fingerprints_handshape)]
        IN [chord_id |-> fp.chord_id, start |-> fp.start_time, end |-> fp.end_time]]

\* the orders of 1..n
RECURSIVE Orders(_)
Orders(n) ==
    IF n = 0 THEN {<<>>}
    ELSE {[i \in 1..n |-> IF i < k THEN p[i] ELSE IF i = k THEN n ELSE p[i - 1]] :
             p \in Orders(n - 1), k \in 1..n}

\* std::ranges::sort(handshapes, a.start < b.start): the order of elements
\* that compare equal is unspecified, so every ordered arrangement of the
\* views is an outcome
RangesSort(views) ==
    {[i \in 1..Len(views) |-> views[p[i]]] :
        p \in {q \in Orders(Len(views)) :
                  \A i \in 1..(Len(views) - 1) : views[q[i]].start <= views[q[i + 1]].start}}

\* std::ranges::stable_sort of the views: equal elements keep their order
StableSort(views) ==
    {[i \in 1..Len(views) |-> views[p[i]]] :
        p \in {q \in Orders(Len(views)) :
                  \A i \in 1..(Len(views) - 1) :
                      \/ views[q[i]].start < views[q[i + 1]].start
                      \/ views[q[i]].start = views[q[i + 1]].start /\ q[i] < q[i + 1]}}

\* lines 573-695: one level node; sorted is the outcome of the sort
WriteLevel(sng, manifest, arr, sorted) ==
    LET IsChord(note) == note.chord_id >= 0 /\ Has(note.mask, "CHORD")
        IsSingle(note) == ~IsChord(note)
        single_notes == Filter(arr.notes, IsSingle)
        chords == Filter(arr.notes, IsChord)
        NoteNode(note) ==
            Node("note",
                 <<<<"time", FormatFloat(note.time)>>, <<"string", note.string>>,
                   <<"fret", note.fret>>>>
                 \o When(note.sustain > 0, "sustain", FormatFloat(note.sustain))
                 \o WriteNoteFlags(note),
                 WriteBendValues(note.bend_values))
        ChordNode(note) ==
            Node("chord",
                 <<<<"time", FormatFloat(note.time)>>, <<"chordId", note.chord_id>>>>
                 \o When(Has(note.mask, "PARENT"), "linkNext", 1)
                 \o When(Has(note.mask, "ACCENT"), "accent", 1)
                 \o When(Has(note.mask, "FRETHANDMUTE"), "fretHandMute", 1)
                 \o When(Has(note.mask, "HIGHDENSITY"), "highDensity", 1)
                 \o When(Has(note.mask, "IGNORE"), "ignore", 1)
                 \o When(Has(note.mask, "PALMMUTE"), "palmMute", 1)
                 \o When(Has(note.mask, "HAMMERON") \/ Has(note.mask, "PULLOFF"), "hopo", 1),
                 IF Has(note.mask, "CHORDPANEL")
                 THEN Flatten([s \in 1..6 |-> WriteChordNoteFromTemplate(sng, note, s - 1)])
                 ELSE <<>>)
    IN Node("level", <<<<"difficulty", arr.difficulty>>>>,
            <<Node("notes", <<<<"count", Len(single_notes)>>>>,
                   [i \in 1..Len(single_notes) |-> NoteNode(single_notes[i])]),
              Node("chords", <<<<"count", Len(chords)>>>>,
                   [i \in 1..Len(chords) |-> ChordNode(chords[i])]),
              Node("anchors", <<<<"count", Len(arr.anchors)>>>>,
                   [i \in 1..Len(arr.anchors) |->
                       Node("anchor", <<<<"time", FormatFloat(arr.anchors[i].start_time)>>,
                                        <<"fret", arr.anchors[i].fret>>,
                                        <<"width", FormatFloat(arr.anchors[i].width * 1000)>>>>,
                            <<>>)]),
              Node("handShapes", <<<<"count", Len(sorted)>>>>,
                   [i \in 1..Len(sorted) |->
                       Node("handShape", <<<<"chordId", sorted[i].chord_id>>,
                                           <<"startTime", FormatFloat(sorted[i].start)>>,
                                           <<"endTime", FormatFloat(sorted[i].end)>>>>,
                            <<>>)])>>)

\* WriteInstrumentalXml: the song node; sorted[i] is the outcome of the sort
\* of level i
WriteInstrumentalXml(sng, manifest, sorted) ==
    LET Counted(tag, seq, Child(_)) ==
            Node(tag, <<<<"count", Len(seq)>>>>, [i \in 1..Len(seq) |-> Child(seq[i])])
        Phrase(phrase) ==
            Node("phrase", <<<<"maxDifficulty", phrase.max_difficulty>>,
                             <<"name", phrase.name>>>>
                           \o When(phrase.disparity = 1, "disparity", 1)
                           \o When(phrase.ignore = 1, "ignore", 1)
                           \o When(phrase.solo = 1, "solo", 1), <<>>)
        PhraseIteration(pi) ==
            Node("phraseIteration", <<<<"time", FormatFloat(pi.start_time)>>,
                                      <<"phraseId", pi.phrase_id>>>>,
                 IF pi.difficulty[1] > 0 \/ pi.difficulty[2] > 0 \/ pi.difficulty[3] > 0
                 THEN <<Node("heroLevels", <<<<"count", 3>>>>,
                             [i \in 1..3 |->
                                 Node("heroLevel", <<<<"hero", i>>,
                                                     <<"difficulty", pi.difficulty[i]>>>>,
                                      <<>>)])>>
                 ELSE <<>>)
        NewLinkedDiff(nld) ==
            Node("newLinkedDiff", <<<<"levelBreak", nld.level_break>>, <<"ratio", "1.000">>,
                                    <<"phraseCount", Len(nld.nld_phrases)>>>>,
                 [i \in 1..Len(nld.nld_phrases) |->
                     Node("nld_phrase", <<<<"id", nld.nld_phrases[i]>>>>, <<>>)])
        PhraseProperty(info) ==
            Node("phraseProperty", <<<<"phraseId", info.phrase_id>>,
                                     <<"redundant", info.redundant>>,
                                     <<"levelJump", info.level_jump>>,
                                     <<"empty", info.empty>>,
                                     <<"difficulty", info.difficulty>>>>, <<>>)
        ChordTemplate(chord) ==
            Node("chordTemplate",
                 <<<<"chordName", chord.name>>,
                   <<"displayName", IF chord.mask = 1 THEN <<chord.name, "-arp">>
                                    ELSE IF chord.mask = 2 THEN <<chord.name, "-nop">>
                                    ELSE <<chord.name>>>>>>
                 \o Flatten([i \in 1..6 |->
                                When(chord.fingers[i] # -1, FingerN[i], chord.fingers[i])])
                 \o Flatten([i \in 1..6 |->
                                When(chord.frets[i] # -1, FretN[i], chord.frets[i])]),
                 <<>>)
        Ebeat(bpm) ==
            Node("ebeat", <<<<"time", FormatFloat(bpm.time)>>>>
                          \o When(bpm.mask % 2 # 0, "measure", bpm.measure), <<>>)
        ToneTags == <<"tonea", "toneb", "tonec", "toned">>
        Tone(tone) ==
            Node("tone", <<<<"time", FormatFloat(tone.time)>>, <<"id", tone.tone_id>>,
                           <<"name", IF manifest # NullPtr /\ tone.tone_id >= 0
                                        /\ tone.tone_id < 4
                                     THEN (IF manifest[1].tone_names[tone.tone_id + 1] # <<>>
                                           THEN manifest[1].tone_names[tone.tone_id + 1][1]
                                           ELSE "")
                                     ELSE "N/A">>>>, <<>>)
        Section(section) ==
            Node("section", <<<<"name", section.name>>, <<"number", section.number>>,
                              <<"startTime", FormatFloat(section.start_time)>>>>, <<>>)
        Event(event) ==
            Node("event", <<<<"time", FormatFloat(event.time)>>, <<"code", event.name>>>>,
                 <<>>)
        Empty(tag) == Node(tag, <<<<"count", 0>>>>, <<>>)
    IN Node("song", <<<<"version", "8">>>>,
         <<TextNode("title", ManifestOr(manifest, "title", "")),
           TextNode("arrangement", ManifestOr(manifest, "arrangement", "")),
           TextNode("part", sng.metadata.part),
           TextNode("offset", FormatFloat(-sng.metadata.start_time)),
           TextNode("centOffset", ManifestOr(manifest, "cent_offset", 0)),
           TextNode("songLength", FormatFloat(sng.metadata.song_length)),
           TextNode("songNameSort", ManifestOr(manifest, "song_name_sort", "")),
           TextNode("startBeat", FormatFloat(sng.metadata.start_time)),
           TextNode("averageTempo", FormatFloat(AverageTempo(manifest))),
           Node("tuning",
                [i \in 1..6 |-> <<StringN[i], IF i - 1 < Len(sng.metadata.tuning)
                                              THEN sng.metadata.tuning[i] ELSE 0>>], <<>>),
           TextNode("capo", Max(0, sng.metadata.capo_fret_id)),
           TextNode("artistName", ManifestOr(manifest, "artist_name", "")),
           TextNode("artistNameSort", ManifestOr(manifest, "artist_name_sort", "")),
           TextNode("albumName", ManifestOr(manifest, "album_name", "")),
           TextNode("albumNameSort", ManifestOr(manifest, "album_name_sort", "")),
           TextNode("albumYear", ManifestOr(manifest, "album_year", 0)),
           TextNode("crowdSpeed", 1),
           WriteArrangementProperties(
               ManifestOr(manifest, "arrangement_properties", ArrangementProperties0)),
           TextNode("lastConversionDateTime", sng.metadata.last_conversion_date_time),
           Counted("phrases", sng.phrases, Phrase),
           Counted("phraseIterations", sng.phrase_iterations, PhraseIteration),
           Counted("newLinkedDiffs", sng.nlinked_difficulties, NewLinkedDiff),
           Counted("phraseProperties", sng.phrase_extra_infos, PhraseProperty),
           Counted("chordTemplates", sng.chords, ChordTemplate),
           Counted("ebeats", sng.bpms, Ebeat)>>
         \o (IF ManifestOr(manifest, "tone_base", "") # ""
             THEN <<TextNode("tonebase", manifest[1].tone_base[1])>> ELSE <<>>)
         \o (IF manifest = NullPtr THEN <<>>
             ELSE Flatten([i \in 1..4 |->
                     IF manifest[1].tone_names[i] # <<>> /\ manifest[1].tone_names[i] # <<"">>
                     THEN <<TextNode(ToneTags[i], manifest[1].tone_names[i][1])>>
                     ELSE <<>>]))
         \o <<Counted("tones", sng.tones, Tone),
              Counted("sections", sng.sections, Section),
              Counted("events", sng.events, Event),
              Node("transcriptionTrack", <<<<"difficulty", -1>>>>,
                   <<Empty("notes"), Empty("chords"), Empty("anchors"), Empty("handShapes")>>),
              Node("levels", <<<<"count", Len(sng.arrangements)>>>>,
                   [i \in 1..Len(sng.arrangements) |->
                       WriteLevel(sng, manifest, sng.arrangements[i], sorted[i])])>>)

\* the outcomes of the sorts of WriteInstrumentalXml, one per level
SortOutcomes(sng, Sort(_)) ==
    {sorted \in [1..Len(sng.arrangements) ->
                    UNION {Sort(HandShapeViews(sng.arrangements[i])) :
                              i \in 1..Len(sng.arrangements)}] :
        \A i \in 1..Len(sng.arrangements) :
            sorted[i] \in Sort(HandShapeViews(sng.arrangements[i]))}

\* SngXmlWriter::Write: the documents it can build
Write(sng, manifest) ==
    IF sng.vocals # <<>> THEN {WriteVocalXml(sng)}
    ELSE {WriteInstrumentalXml(sng, manifest, sorted) : sorted \in SortOutcomes(sng, RangesSort)}

(***************************************************************************)
(* The writer's inputs.  The fret, finger and slide members are given by   *)
(* the bytes of the SNG and converted as the parser converts them;         *)
(* everything else is given by its value.                                  *)
(***************************************************************************)
\* ReadChords, lines 186-197: the frets and fingers of a template
DecodeChord(raw) ==
    [raw EXCEPT !.frets = [i \in 1..6 |-> ReadFretByte(raw.frets[i])],
                !.fingers = [i \in 1..6 |-> ReadFretByte(raw.fingers[i])]]

\* ReadChordNotes, lines 231-238: the slides of a chord's notes
DecodeChordNotes(raw) ==
    [raw EXCEPT !.slide_to = [i \in 1..6 |-> ReadInt8(raw.slide_to[i])],
                !.slide_unpitch_to = [i \in 1..6 |-> ReadInt8(raw.slide_unpitch_to[i])]]

\* ReadNote, lines 450-465: the byte members of a note
DecodeNote(raw) ==
    [raw EXCEPT !.fret = ReadInt8(raw.fret), !.slide_to = ReadInt8(raw.slide_to),
                !.slide_unpitch_to = ReadInt8(raw.slide_unpitch_to),
                !.left_hand = ReadInt8(raw.left_hand)]

\* the SngData the parser builds from the content of an SNG
Decode(raw) ==
    [raw EXCEPT
        !.chords = [i \in 1..Len(raw.chords) |-> DecodeChord(raw.chords[i])],
        !.chord_notes = [i \in 1..Len(raw.chord_notes) |->
                            DecodeChordNotes(raw.chord_notes[i])],
        !.arrangements =
            [i \in 1..Len(raw.arrangements) |->
                [raw.arrangements[i] EXCEPT
                    !.notes = [j \in 1..Len(raw.arrangements[i].notes) |->
                                  DecodeNote(raw.arrangements[i].notes[j])]]]]

\* the bytes tried in a fret, finger or slide position
MaxFret == 24
FretBytes == {0, 3, MaxFret, 127, 128, 254, 255}

Six(v) == [i \in 1..6 |-> v]

\* a template: an open-position chord on strings 1..4
RawChord0 ==
    [mask |-> 0, frets |-> <<255, 3, 2, 0, 1, 255>>, fingers |-> <<255, 3, 2, 255, 1, 255>>,
     name |-> "C"]

RawChordNotes0 ==
    [mask |-> Six({}), bend_data |-> Six(<<>>), slide_to |-> Six(255),
     slide_unpitch_to |-> Six(255), vibrato |-> Six(0)]

RawNote0 ==
    [mask |-> {}, time |-> 1000, string |-> 2, fret |-> 5, chord_id |-> -1,
     chord_notes_id |-> -1, slide_to |-> 255, slide_unpitch_to |-> 255, left_hand |-> 255,
     tap |-> 0, pick_direction |-> 0, vibrato |-> 0, sustain |-> 0, max_bend |-> 0,
     bend_values |-> <<>>]

RawArrangement0 ==
    [difficulty |-> 0, anchors |-> <<[start_time |-> 0, fret |-> 1, width |-> 4]>>,
     fingerprints_handshape |-> <<>>, fingerprints_arpeggio |-> <<>>, notes |-> <<>>]

RawMetadata0 ==
    [part |-> 1, start_time |-> 500, song_length |-> 90000, tuning |-> Six(0),
     capo_fret_id |-> -1, last_conversion_date_time |-> "11-5-26 10:00"]

RawSng0 ==
    [metadata |-> RawMetadata0,
     bpms |-> <<[time |-> 0, mask |-> 1, measure |-> 1],
                [time |-> 500, mask |-> 0, measure |-> 1]>>,
     phrases |-> <<[max_difficulty |-> 0, name |-> "riff", disparity |-> 0, ignore |-> 0,
                    solo |-> 1]>>,
     phrase_iterations |-> <<[start_time |-> 0, phrase_id |-> 0, difficulty |-> <<0, 0, 0>>]>>,
     nlinked_difficulties |-> <<[level_break |-> 0, nld_phrases |-> <<0>>]>>,
     phrase_extra_infos |-> <<>>,
     chords |-> <<RawChord0>>, chord_notes |-> <<RawChordNotes0>>, vocals |-> <<>>,
     tones |-> <<[time |-> 0, tone_id |-> 0]>>,
     sections |-> <<[name |-> "intro", number |-> 1, start_time |-> 0]>>,
     events |-> <<[time |-> 0, name |-> "B0"]>>,
     arrangements |-> <<RawArrangement0>>]

\* RawSng0 with the notes of its level
WithNotes(notes) == [RawSng0 EXCEPT !.arrangements[1].notes = notes]

\* a single note with byte b in one of its positions, its slide bits set
SlideMask == {"SLIDE", "SLIDEUNPITCHEDTO"}
NoteBytes ==
    {WithNotes(<<[RawNote0 EXCEPT !.mask = SlideMask, ![f] = b]>>) :
        f \in {"fret", "left_hand", "slide_to", "slide_unpitch_to"}, b \in FretBytes}

\* a chord on template 0 with the chord panel
RawChordNote0 ==
    [RawNote0 EXCEPT !.mask = {"CHORD", "CHORDPANEL"}, !.chord_id = 0, !.chord_notes_id = 0]

\* a template or a chord's notes with byte b at string 1, under a chord
TemplateBytes ==
    {[WithNotes(<<RawChordNote0>>) EXCEPT !.chords[1][f][2] = b] :
        f \in {"frets", "fingers"}, b \in FretBytes}
    \cup {[WithNotes(<<RawChordNote0>>) EXCEPT !.chord_notes[1][f][2] = b,
                                               !.chord_notes[1].mask[2] = SlideMask] :
            f \in {"slide_to", "slide_unpitch_to"}, b \in FretBytes}

\* chords with and without the chord bits, inside and outside the templates
MaxChordId == 1
ChordShapes ==
    {WithNotes(<<[RawNote0 EXCEPT !.mask = mask, !.chord_id = c, !.chord_notes_id = n,
                                  !.sustain = 250]>>) :
        mask \in {{"CHORD", "CHORDPANEL"}, {"CHORD"}, {"CHORDPANEL"},
                  {"CHORD", "CHORDPANEL", "PARENT"}},
        c \in -1..MaxChordId, n \in {-1, 0}}

\* levels whose handshapes and arpeggios start at equal and at distinct times
MaxShapes == 2
Fingerprints(first_chord, starts) ==
    [i \in 1..Len(starts) |->
        [chord_id |-> first_chord + i, start_time |-> starts[i],
         end_time |-> starts[i] + 500]]
Starts == UNION {[1..n -> {0, 1000}] : n \in 0..MaxShapes}
ShapeLevels ==
    {[RawSng0 EXCEPT !.arrangements[1].fingerprints_handshape = Fingerprints(0, hs),
                     !.arrangements[1].fingerprints_arpeggio = Fingerprints(MaxShapes, arp)] :
        hs \in Starts, arp \in Starts}

\* a vocal arrangement and an arrangement without levels
OtherShapes ==
    {[RawSng0 EXCEPT !.vocals = <<[time |-> 0, note |-> 60, length |-> 250, lyric |-> "la"]>>],
     [RawSng0 EXCEPT !.arrangements = <<>>]}

RawSngs == NoteBytes \cup TemplateBytes \cup ChordShapes \cup ShapeLevels \cup OtherShapes

\* SngManifestMetadata{}
Manifest0 ==
    [title |-> <<>>, arrangement |-> <<>>, cent_offset |-> <<>>, song_name_sort |-> <<>>,
     average_tempo |-> <<>>, artist_name |-> <<>>, artist_name_sort |-> <<>>,
     album_name |-> <<>>, album_name_sort |-> <<>>, album_year |-> <<>>,
     arrangement_properties |-> <<>>, tone_base |-> <<>>, tone_names |-> <<<<>>, <<>>, <<>>, <<>>>>]

\* the manifests the writer is called with
Tempo == 98500
Manifests ==
    {NullPtr, <<Manifest0>>,
     <<[Manifest0 EXCEPT !.title = <<"Song">>, !.average_tempo = <<Tempo>>,
                         !.tone_base = <<"clean">>, !.tone_names[1] = <<"clean">>,
                         !.arrangement_properties =
                             <<[ArrangementProperties0 EXCEPT !.path_lead = 1]>>]>>}

\* the writer before Write is called on raw and manifest
WriterIdle(raw, manifest) ==
    [raw |-> raw, sng |-> Decode(raw), manifest |-> manifest, done |-> FALSE,
     exc |-> "none", doc |-> <<>>]

WriterInit ==
    /\ writer \in {WriterIdle(raw, NullPtr) : raw \in RawSngs}
                  \cup {WriterIdle(raw, manifest) : raw \in OtherShapes, manifest \in Manifests}
    /\ parser = Unused /\ converter = Unused /\ threads = Unused
    /\ SngIdle

\* SngXmlWriter::Write(sng, output_path, manifest): doc.save_file saves the
\* document (saved), or fails and the call throws
CallWrite(saved) ==
    /\ ~writer.done
    /\ \E doc \in Write(writer.sng, writer.manifest) :
           writer' = IF saved THEN [writer EXCEPT !.done = TRUE, !.doc = <<doc>>]
                     ELSE [writer EXCEPT !.done = TRUE, !.exc = "PsarcException"]
    /\ UNCHANGED <<psarc, parser, converter, threads>>

WriterNext == \E saved \in BOOLEAN : CallWrite(saved)

WriterSpec == WriterInit /\ [][WriterNext]_vars

(***************************************************************************)
(* Reading the saved document back.                                        *)
(***************************************************************************)
\* the children of a node that carry a tag, in document order
Children(node, tag) == SelectSeq(node.kids, LAMBDA k : k.tag = tag)

\* the only child of a node that carries a tag
Child(node, tag) == Children(node, tag)[1]

HasAttribute(node, name) == \E i \in 1..Len(node.attrs) : node.attrs[i][1] = name

\* the value of an attribute the node has
Attribute(node, name) ==
    node.attrs[CHOOSE i \in 1..Len(node.attrs) : node.attrs[i][1] = name][2]

\* Write has saved an instrumental document
Instrumental == writer.done /\ writer.exc = "none" /\ writer.sng.vocals = <<>>

SavedSong == writer.doc[1]

\* the level nodes, the note nodes and the chord nodes of a level
SavedLevels == Children(Child(SavedSong, "levels"), "level")
SavedNotes(l) == Children(Child(SavedLevels[l], "notes"), "note")
SavedChords(l) == Children(Child(SavedLevels[l], "chords"), "chord")
SavedTemplates == Children(Child(SavedSong, "chordTemplates"), "chordTemplate")

\* lines 578-590: the notes of a level written as chords, and the others
IsChordNote(note) == note.chord_id >= 0 /\ Has(note.mask, "CHORD")
IsSingleNote(note) == ~IsChordNote(note)
RawSingles(l) == Filter(writer.raw.arrangements[l].notes, IsSingleNote)
RawChords(l) == Filter(writer.raw.arrangements[l].notes, IsChordNote)

\* the four byte positions of a single note and the attribute of each
NoteAttribute ==
    [fret |-> "fret", left_hand |-> "leftHand", slide_to |-> "slideTo",
     slide_unpitch_to |-> "slideUnpitchTo"]

\* 0xFF in a template's fret or finger: no fretN, no fingerN
TemplateSentinels ==
    \A t \in 1..Len(writer.raw.chords), i \in 1..6 :
        /\ writer.raw.chords[t].frets[i] = 255 => ~HasAttribute(SavedTemplates[t], FretN[i])
        /\ writer.raw.chords[t].fingers[i] = 255
               => ~HasAttribute(SavedTemplates[t], FingerN[i])

\* 0xFF in a position of a single note: no attribute for the position
NoteSentinels(positions) ==
    \A l \in 1..Len(writer.raw.arrangements) :
        \A k \in 1..Len(RawSingles(l)), f \in positions :
            RawSingles(l)[k][f] = 255 => ~HasAttribute(SavedNotes(l)[k], NoteAttribute[f])

\* 0xFF in the template finger or in a slide of a chord's note: no leftHand,
\* no slideTo, no slideUnpitchTo on the chordNote of that string
ChordNoteSentinels ==
    \A l \in 1..Len(writer.raw.arrangements) :
        \A k \in 1..Len(RawChords(l)) :
            LET note == RawChords(l)[k]
                cns == Children(SavedChords(l)[k], "chordNote")
            IN \A c \in 1..Len(cns) :
                   LET s == Attribute(cns[c], "string") + 1 IN
                   /\ writer.raw.chords[note.chord_id + 1].fingers[s] = 255
                          => ~HasAttribute(cns[c], "leftHand")
                   /\ note.chord_notes_id \in 0..(Len(writer.raw.chord_notes) - 1) =>
                          /\ writer.raw.chord_notes[note.chord_notes_id + 1].slide_to[s] = 255
                                 => ~HasAttribute(cns[c], "slideTo")
                          /\ writer.raw.chord_notes[note.chord_notes_id + 1]
                                 .slide_unpitch_to[s] = 255
                                 => ~HasAttribute(cns[c], "slideUnpitchTo")

\* C15: every fret, finger, slide-to or unpitched-slide-to byte of the SNG
\* that is 0xFF has its attribute omitted from the saved XML: a template's
\* fretN and fingerN, a single note's fret, leftHand, slideTo and
\* slideUnpitchTo, a chordNote's leftHand, slideTo and slideUnpitchTo.
C15_SentinelOmitted ==
    Instrumental =>
        /\ TemplateSentinels
        /\ NoteSentinels({"fret", "left_hand", "slide_to", "slide_unpitch_to"})
        /\ ChordNoteSentinels

\* what the writer does keep of C15: every position but a single note's fret
SentinelOmittedButNoteFret ==
    Instrumental =>
        /\ TemplateSentinels
        /\ NoteSentinels({"left_hand", "slide_to", "slide_unpitch_to"})
        /\ ChordNoteSentinels

\* a single note whose fret byte is 0xFF is saved with fret="-1"
NoteFretMinusOne ==
    /\ Instrumental
    /\ \E l \in 1..Len(writer.raw.arrangements) :
           \E k \in 1..Len(RawSingles(l)) :
               /\ RawSingles(l)[k].fret = 255
               /\ HasAttribute(SavedNotes(l)[k], "fret")
               /\ Attribute(SavedNotes(l)[k], "fret") = -1

\* the strings 0..5 of a raw template whose fret byte is not 0xFF, ascending
PresentStrings(template) ==
    SelectSeq(<<0, 1, 2, 3, 4, 5>>, LAMBDA s : template.frets[s + 1] # 255)

\* the chordNote children of a saved chord are those of the strings whose
\* template fret is present, ascending, each with the template's fret; a
\* chord without CHORDPANEL has none
ExpandedFromTemplate(note, chord) ==
    LET cns == Children(chord, "chordNote") IN
    /\ Len(cns) = Len(chord.kids)
    /\ Has(note.mask, "CHORDPANEL") /\ note.chord_id < Len(writer.raw.chords) =>
           LET template == writer.raw.chords[note.chord_id + 1] IN
           /\ [c \in 1..Len(cns) |-> Attribute(cns[c], "string")] = PresentStrings(template)
           /\ \A c \in 1..Len(cns) :
                  Attribute(cns[c], "fret") = template.frets[Attribute(cns[c], "string") + 1]
    /\ ~Has(note.mask, "CHORDPANEL") => cns = <<>>

\* the fret bytes of every template are 0..127 or 0xFF
SignedFrets ==
    \A t \in 1..Len(writer.raw.chords), i \in 1..6 :
        writer.raw.chords[t].frets[i] \in (0..127) \cup {255}

\* C16: a note with CHORD and CHORDPANEL and a chord_id inside the template
\* table is saved with exactly one chordNote per string 0..5 whose template
\* fret is present, in ascending string order and with fret equal to the
\* template fret; a chord without CHORDPANEL is saved with no chordNote.
C16_ChordNoteExpansion ==
    Instrumental =>
        \A l \in 1..Len(writer.raw.arrangements) :
            \A k \in 1..Len(RawChords(l)) :
                ExpandedFromTemplate(RawChords(l)[k], SavedChords(l)[k])

\* what the writer does keep of C16: the expansion when no fret byte is in
\* 0x80..0xFE
ExpansionOfSignedFrets ==
    Instrumental /\ SignedFrets =>
        \A l \in 1..Len(writer.raw.arrangements) :
            \A k \in 1..Len(RawChords(l)) :
                ExpandedFromTemplate(RawChords(l)[k], SavedChords(l)[k])

\* a template fret byte in 0x80..0xFE is saved as a negative fretN of the
\* chordTemplate, and the chordNote of its string is missing
FretWithoutChordNote ==
    /\ Instrumental
    /\ \E l \in 1..Len(writer.raw.arrangements) :
           \E k \in 1..Len(RawChords(l)) :
               LET note == RawChords(l)[k]
                   cns == Children(SavedChords(l)[k], "chordNote")
               IN /\ Has(note.mask, "CHORDPANEL")
                  /\ note.chord_id < Len(writer.raw.chords)
                  /\ \E s \in 0..5 :
                         /\ writer.raw.chords[note.chord_id + 1].frets[s + 1] \in 128..254
                         /\ HasAttribute(SavedTemplates[note.chord_id + 1], FretN[s + 1])
                         /\ Attribute(SavedTemplates[note.chord_id + 1], FretN[s + 1]) < 0
                         /\ \A c \in 1..Len(cns) : Attribute(cns[c], "string") # s
                  /\ cns # <<>>

\* the handShape nodes of a saved level, read back as views
SavedHandShapes(l) ==
    LET nodes == Children(Child(SavedLevels[l], "handShapes"), "handShape") IN
    [i \in 1..Len(nodes) |->
        [chord_id |-> Attribute(nodes[i], "chordId"),
         start |-> Attribute(nodes[i], "startTime")[2],
         end |-> Attribute(nodes[i], "endTime")[2]]]

\* C17: the handShape sequence saved for every level is the stable sort by
\* start_time of the level's handshape fingerprints followed by its arpeggio
\* fingerprints: a permutation of both arrays with non-decreasing start
\* times in which entries of equal start_time keep their insertion order.
C17_StableMerge ==
    Instrumental =>
        \A l \in 1..Len(writer.raw.arrangements) :
            SavedHandShapes(l) \in StableSort(HandShapeViews(writer.raw.arrangements[l]))

\* what the writer does keep of C17: a permutation of both arrays with
\* non-decreasing start times
SortedMerge ==
    Instrumental =>
        \A l \in 1..Len(writer.raw.arrangements) :
            LET views == HandShapeViews(writer.raw.arrangements[l])
                saved == SavedHandShapes(l)
            IN /\ \E p \in Orders(Len(views)) :
                      saved = [i \in 1..Len(views) |-> views[p[i]]]
               /\ \A i \in 1..(Len(saved) - 1) : saved[i].start <= saved[i + 1].start

\* an arpeggio saved before a handshape of the same start_time
ArpeggioBeforeHandshape ==
    /\ Instrumental
    /\ \E l \in 1..Len(writer.raw.arrangements) :
           LET arr == writer.raw.arrangements[l]
               saved == SavedHandShapes(l)
           IN \E i, j \in 1..Len(saved) :
                  /\ i < j
                  /\ saved[i].start = saved[j].start
                  /\ \E a \in 1..Len(arr.fingerprints_arpeggio) :
                         arr.fingerprints_arpeggio[a].chord_id = saved[i].chord_id
                  /\ \E h \in 1..Len(arr.fingerprints_handshape) :
                         arr.fingerprints_handshape[h].chord_id = saved[j].chord_id

(***************************************************************************)
(* The overlay (src/src/psarc_file.cpp, lines 62-236).  A JSON value is    *)
(* [type, s, n, m]: its type, its text when a string, its number when an   *)
(* integer, its number of thousandths when a float, and when an object the *)
(* sequence of its <<key, value>> members in the order nlohmann::json      *)
(* keeps them, ascending by key.  A JSON text is [bom, json]: the number   *)
(* of byte order marks it starts with, and <<>> when what follows is no    *)
(* JSON or <<value>> when it is.                                           *)
(***************************************************************************)
JNull == [type |-> "null", s |-> "", n |-> 0, m |-> <<>>]
JString(s) == [JNull EXCEPT !.type = "string", !.s = s]
JInteger(n) == [JNull EXCEPT !.type = "integer", !.n = n]
JFloat(thousandths) == [JNull EXCEPT !.type = "float", !.n = thousandths]
JObject(members) == [JNull EXCEPT !.type = "object", !.m = members]

\* obj.contains(key)
JsonContains(obj, key) == \E i \in 1..Len(obj.m) : obj.m[i][1] = key

\* obj.at(key)
JsonAt(obj, key) == obj.m[CHOOSE i \in 1..Len(obj.m) : obj.m[i][1] = key][2]

\* FindJsonKey: a pointer to the value of the first of keys that obj contains
FindJsonKey(obj, keys) ==
    IF obj.type # "object" THEN NullPtr
    ELSE LET present == SelectSeq(keys, LAMBDA key : JsonContains(obj, key))
         IN IF present = <<>> THEN NullPtr ELSE <<JsonAt(obj, present[1])>>

\* ResolveManifestSource: a pointer to Entries.<first key>.Attributes
ResolveManifestSource(root) ==
    IF root.type # "object" THEN NullPtr
    ELSE LET entries == FindJsonKey(root, <<"Entries", "entries">>) IN
         IF entries = NullPtr THEN NullPtr
         ELSE IF entries[1].type # "object" THEN NullPtr
         ELSE IF entries[1].m = <<>> THEN NullPtr
         ELSE LET first == entries[1].m[1][2] IN
              IF first.type # "object" THEN NullPtr
              ELSE LET attributes == FindJsonKey(first, <<"Attributes", "attributes">>) IN
                   IF attributes = NullPtr THEN NullPtr
                   ELSE IF attributes[1].type # "object" THEN NullPtr
                   ELSE attributes

\* static_cast<int>(double): the integer part of a number of thousandths
ToInt(thousandths) ==
    IF thousandths >= 0 THEN thousandths \div 1000 ELSE -((-thousandths) \div 1000)

\* ReadJsonValue<T>: an optional; T is "string", "float" or "int"
ReadJsonValue(T, obj, keys) ==
    LET value == FindJsonKey(obj, keys) IN
    IF value = NullPtr THEN <<>>
    ELSE IF value[1].type = "null" THEN <<>>
    ELSE IF T = "string"
         THEN (IF value[1].type = "string" THEN <<value[1].s>> ELSE <<>>)
    ELSE IF T = "float"
         THEN (IF value[1].type = "integer" THEN <<value[1].n * 1000>>
               ELSE IF value[1].type = "float" THEN <<value[1].n>>
               ELSE <<>>)
    ELSE IF value[1].type = "integer" THEN <<value[1].n>>
    ELSE IF value[1].type = "float" THEN <<ToInt(value[1].n)>>
    ELSE <<>>

\* lines 177-191: the members read from the source object, the type of each
\* and the keys it is looked up under
MetadataKeys ==
    <<<<"title", "string", <<"SongName", "songName">>>>,
      <<"arrangement", "string", <<"ArrangementName", "arrangementName">>>>,
      <<"cent_offset", "float", <<"CentOffset", "centOffset">>>>,
      <<"song_name_sort", "string", <<"SongNameSort", "songNameSort">>>>,
      <<"average_tempo", "float", <<"SongAverageTempo", "songAverageTempo">>>>,
      <<"artist_name", "string", <<"ArtistName", "artistName">>>>,
      <<"artist_name_sort", "string", <<"ArtistNameSort", "artistNameSort">>>>,
      <<"album_name", "string", <<"AlbumName", "albumName">>>>,
      <<"album_name_sort", "string", <<"AlbumNameSort", "albumNameSort">>>>,
      <<"album_year", "int", <<"SongYear", "songYear">>>>,
      <<"tone_base", "string", <<"Tone_Base", "toneBase">>>>>>

\* lines 192-195: the keys of the four tone names
ToneKeys ==
    <<<<"Tone_A", "toneA">>, <<"Tone_B", "toneB">>, <<"Tone_C", "toneC">>,
      <<"Tone_D", "toneD">>>>

\* lines 197-233: the optional arrangement properties
ReadArrangementProperties(source) ==
    LET props == FindJsonKey(source, <<"ArrangementProperties", "arrangementProperties">>)
        ValueOr(optional, fallback) == IF optional = <<>> THEN fallback ELSE optional[1]
    IN IF props = NullPtr THEN <<>>
       ELSE IF props[1].type # "object" THEN <<>>
       ELSE <<[m \in PropertyMembers |->
                 LET i == CHOOSE j \in 1..Len(PropertyNames) : PropertyNames[j][2] = m
                 IN ValueOr(ReadJsonValue("int", props[1], <<PropertyNames[i][1]>>), 0)]>>

\* ParseManifestMetadata
ParseManifestMetadata(json_text) ==
    IF json_text.bom > 1 \/ json_text.json = <<>> THEN Manifest0
    ELSE LET source == ResolveManifestSource(json_text.json[1]) IN
         IF source = NullPtr THEN Manifest0
         ELSE [m \in DOMAIN Manifest0 |->
                  IF m = "tone_names"
                  THEN [i \in 1..4 |-> ReadJsonValue("string", source[1], ToneKeys[i])]
                  ELSE IF m = "arrangement_properties"
                  THEN ReadArrangementProperties(source[1])
                  ELSE LET i == CHOOSE j \in 1..Len(MetadataKeys) : MetadataKeys[j][1] = m
                       IN ReadJsonValue(MetadataKeys[i][2], source[1], MetadataKeys[i][3])]

(***************************************************************************)
(* PsarcFile::ConvertSng (src/src/psarc_file.cpp, lines 1005-1090) on an   *)
(* open archive.  An entry is [name, extract, sng, text]: its name, whether*)
(* its extraction returns ("ok") or throws, and what the extracted bytes   *)
(* are to their reader: to SngParser::Parse <<>> when it throws and        *)
(* <<content>> when it returns, to ParseManifestMetadata a JSON text.      *)
(***************************************************************************)
\* "songs_dlc_", ".json", ".xml"
ManifestMark == <<115, 111, 110, 103, 115, 95, 100, 108, 99, 95>>
JsonExt == <<46, 106, 115, 111, 110>>
XmlExt == <<46, 120, 109, 108>>

\* IsLikelyManifestFile
IsLikelyManifestFile(path) == EndsWith(path, JsonExt) /\ Contains(path, ManifestMark)

\* ToLower: std::tolower of every byte, in the "C" locale
ToLower(value) ==
    [i \in 1..Len(value) |-> IF value[i] \in 65..90 THEN value[i] + 32 ELSE value[i]]

\* the positions of byte b in s
Positions(s, b) == {i \in 1..Len(s) : s[i] = b}

SetMax(S) == CHOOSE x \in S : \A y \in S : y <= x

\* fs::path(name).filename(): what follows the last '/'
Filename(name) ==
    IF Positions(name, 47) = {} THEN name
    ELSE SubSeq(name, SetMax(Positions(name, 47)) + 1, Len(name))

\* fs::path(name).stem(): the filename without its extension; "." and ".." and
\* a filename whose only dot is its first byte have no extension
Stem(name) ==
    LET filename == Filename(name)
        dots == Positions(filename, 46)
    IN IF filename = <<46>> \/ filename = <<46, 46>> \/ dots = {} \/ SetMax(dots) = 1
       THEN filename
       ELSE SubSeq(filename, 1, SetMax(dots) - 1)

\* lines 1011-1018: the names of the SNG entries, in TOC order
SngNames(entries) ==
    SelectSeq([i \in 1..Len(entries) |-> entries[i].name], IsSngName)

\* lines 1021-1030: the indices of the manifest candidates, in TOC order
ManifestIndices(entries) ==
    SelectSeq([i \in 1..Len(entries) |-> i - 1],
              LAMBDA idx : IsLikelyManifestFile(entries[idx + 1].name))

\* the first of the indices that passes a test, -1 when none does
FirstIndex(indices, Test(_)) ==
    LET passing == SelectSeq(indices, Test) IN IF passing = <<>> THEN -1 ELSE passing[1]

\* a faulty match in one pass: the first candidate of equal stem or whose
\* path contains the stem
MatchInOnePass(entries, sng_stem) ==
    LET Either(idx) == \/ ToLower(Stem(entries[idx + 1].name)) = sng_stem
                       \/ Contains(ToLower(entries[idx + 1].name), sng_stem)
    IN FirstIndex(ManifestIndices(entries), Either)

\* lines 1043-1066: the overlay matched to an SNG stem
MatchManifest(entries, sng_stem) ==
    LET StemEqual(idx) == ToLower(Stem(entries[idx + 1].name)) = sng_stem
        InPath(idx) == Contains(ToLower(entries[idx + 1].name), sng_stem)
        matched_manifest == FirstIndex(ManifestIndices(entries), StemEqual)
    IN IF matched_manifest < 0 THEN FirstIndex(ManifestIndices(entries), InPath)
       ELSE matched_manifest

\* m_file_map.find(name)->second, for a name of the archive: ReadManifest
\* assigns m_file_map[name] entry by entry, so the last entry of a name stays
FileIndex(entries, name) == SetMax({i \in 1..Len(entries) : entries[i].name = name}) - 1

\* what the conversion of one SNG leaves: the exception caught, the overlay
\* matched, the manifest handed to the writer and the document saved
Converted(sng_name, exc, overlay, manifest, doc) ==
    [name |-> sng_name, exc |-> exc, overlay |-> overlay, manifest |-> manifest,
     xml |-> Stem(sng_name) \o XmlExt, doc |-> doc]

\* lines 1034-1078: the body of the loop, for one SNG name; fs tells whether
\* the output directory takes new files
ConvertOne(entries, sng_name, fs) ==
    LET entry == entries[FileIndex(entries, sng_name) + 1]
        matched_manifest == MatchManifest(entries, ToLower(Stem(sng_name)))
        manifest == IF matched_manifest >= 0
                    THEN <<ParseManifestMetadata(entries[matched_manifest + 1].text)>>
                    ELSE NullPtr
    IN IF entry.extract # "ok"
       THEN {Converted(sng_name, "std::exception", -1, NullPtr, <<>>)}
       ELSE IF entry.sng = <<>>
       THEN {Converted(sng_name, "std::exception", -1, NullPtr, <<>>)}
       ELSE IF matched_manifest >= 0 /\ entries[matched_manifest + 1].extract # "ok"
       THEN {Converted(sng_name, "std::exception", matched_manifest, NullPtr, <<>>)}
       ELSE IF fs # "ok"
       THEN {Converted(sng_name, "std::exception", matched_manifest, manifest, <<>>)}
       ELSE {Converted(sng_name, "none", matched_manifest, manifest, <<doc>>) :
                doc \in Write(Decode(entry.sng[1]), manifest)}

\* the loop over sng_files: the sequences of its outcomes
RECURSIVE ConvertAll(_, _, _)
ConvertAll(entries, sng_files, fs) ==
    IF sng_files = <<>> THEN {<<>>}
    ELSE {<<first>> \o rest : first \in ConvertOne(entries, Head(sng_files), fs),
                              rest \in ConvertAll(entries, Tail(sng_files), fs)}

(***************************************************************************)
(* The archives converted.                                                 *)
(***************************************************************************)
NoText == [bom |-> 0, json |-> <<>>]
Text(json) == [bom |-> 0, json |-> <<json>>]

\* an entry that is neither an SNG nor a manifest to its readers
Entry(name) == [name |-> name, extract |-> "ok", sng |-> <<>>, text |-> NoText]
SngEntry(name, raw) == [Entry(name) EXCEPT !.sng = <<raw>>]
JsonEntry(name, text) == [Entry(name) EXCEPT !.text = text]

\* a manifest text: Entries.<id>.Attributes with the given members
Overlay(attributes) ==
    JObject(<<<<"Entries", JObject(<<<<"id", JObject(<<<<"Attributes",
                                                         JObject(attributes)>>>>)>>>>)>>>>)

\* "songs/bin/generic/Lead.sng" and "songs/bin/generic/bass.sng"
LeadSng == SngDir \o <<76, 101, 97, 100>> \o SngExt
BassSng == SngDir \o <<98, 97, 115, 115>> \o SngExt

\* the names tried for manifests:
\*   "songs_dlc_x/LEAD.json"     of the stem of Lead.sng
\*   "songs_dlc_x/lead_v2.json"  whose stem contains it
\*   "songs_dlc_lead/a.json"     whose directory contains it
\*   "songs_dlc_x/bass.json"     of the stem of bass.sng
\*   "songs_dlc_x/other.json"    of neither
\*   "m/lead.json"               without "songs_dlc_"
\*   "songs_dlc_x/lead.JSON"     without ".json"
ManifestNames0 ==
    {<<115, 111, 110, 103, 115, 95, 100, 108, 99, 95, 120, 47, 76, 69, 65, 68>> \o JsonExt,
     <<115, 111, 110, 103, 115, 95, 100, 108, 99, 95, 120, 47, 108, 101, 97, 100, 95, 118, 50>>
         \o JsonExt,
     <<115, 111, 110, 103, 115, 95, 100, 108, 99, 95, 108, 101, 97, 100, 47, 97>> \o JsonExt,
     <<115, 111, 110, 103, 115, 95, 100, 108, 99, 95, 120, 47, 98, 97, 115, 115>> \o JsonExt,
     <<115, 111, 110, 103, 115, 95, 100, 108, 99, 95, 120, 47, 111, 116, 104, 101, 114>>
         \o JsonExt,
     <<109, 47, 108, 101, 97, 100>> \o JsonExt,
     <<115, 111, 110, 103, 115, 95, 100, 108, 99, 95, 120, 47, 108, 101, 97, 100, 46, 74, 83,
       79, 78>>}

\* the sequences without repetition of at most n elements of S
RECURSIVE Arrangements(_, _)
Arrangements(S, n) ==
    IF n = 0 THEN {<<>>}
    ELSE {<<>>} \cup {<<x>> \o rest : x \in S, rest \in Arrangements(S, n - 1)}
NoRepeat(seq) == \A i, j \in 1..Len(seq) : i # j => seq[i] # seq[j]

\* a manifest that gives the sum of the bytes of its name as tempo
TempoOf(name) == Text(Overlay(<<<<"SongAverageTempo", JInteger(SumSeq(name))>>>>))

\* archives of two SNGs around manifests of every name and order
MaxManifests == 3
MatchArchives ==
    {<<Entry(NamesBlockBin), SngEntry(LeadSng, RawSng0)>>
     \o [i \in 1..Len(names) |-> JsonEntry(names[i], TempoOf(names[i]))]
     \o <<SngEntry(BassSng, RawSng0)>> :
        names \in {seq \in Arrangements(ManifestNames0, MaxManifests) : NoRepeat(seq)}}

\* "songs_dlc_x/lead.json"
LeadJson ==
    <<115, 111, 110, 103, 115, 95, 100, 108, 99, 95, 120, 47, 108, 101, 97, 100>> \o JsonExt

\* the values tried under the first and the second spelling of a key of type
\* T, and a value of another type
Good(T, k) ==
    IF T = "string" THEN JString(IF k = 1 THEN "first" ELSE "second")
    ELSE IF T = "float" THEN (IF k = 1 THEN JFloat(Tempo) ELSE JInteger(110))
    ELSE (IF k = 1 THEN JInteger(1999) ELSE JFloat(2001500))
Wrong(T) == IF T = "string" THEN JInteger(7) ELSE JString("x")

\* the members tried for a key of type T spelled first and second: either
\* spelling alone, both, the first as null or of another type beside the second
KeyShapes(T, first, second) ==
    {<<<<first, Good(T, 1)>>>>, <<<<second, Good(T, 2)>>>>,
     <<<<first, Good(T, 1)>>, <<second, Good(T, 2)>>>>,
     <<<<first, JNull>>, <<second, Good(T, 2)>>>>,
     <<<<first, Wrong(T)>>, <<second, Good(T, 2)>>>>,
     <<<<first, Wrong(T)>>>>}

\* the arrangement properties spelled with a capital
PascalProperty ==
    <<"Represent", "BonusArr", "StandardTuning", "NonStandardChords", "BarreChords",
      "PowerChords", "DropDPower", "OpenChords", "FingerPicking", "PickDirection",
      "DoubleStops", "PalmMutes", "Harmonics", "PinchHarmonics", "Hopo", "Tremolo",
      "Slides", "UnpitchedSlides", "Bends", "Tapping", "Vibrato", "FretHandMutes",
      "SlapPop", "TwoFingerPicking", "FifthsAndOctaves", "Syncopation", "BassPick",
      "Sustain", "PathLead", "PathRhythm", "PathBass">>

\* the attributes tried in a manifest
AttributeShapes ==
    UNION {KeyShapes(MetadataKeys[i][2], MetadataKeys[i][3][1], MetadataKeys[i][3][2]) :
              i \in 1..Len(MetadataKeys)}
    \cup UNION {KeyShapes("string", ToneKeys[i][1], ToneKeys[i][2]) : i \in 1..Len(ToneKeys)}
    \cup {<<<<outer, JObject(<<<<key, JInteger(1)>>>>)>>>> :
             outer \in {"ArrangementProperties", "arrangementProperties"},
             key \in {PropertyNames[i][1] : i \in 1..Len(PropertyNames)}
                     \cup Range(PascalProperty)}
    \cup {<<>>, <<<<"ArrangementProperties", JNull>>>>,
          <<<<"ArrangementProperties", JObject(<<<<"pathLead", JFloat(1900)>>,
                                                 <<"pathBass", JString("1")>>>>)>>>>}

\* texts that are no JSON, that start with byte order marks, or whose root
\* does not lead to the attributes
OtherTexts ==
    {NoText, [bom |-> 1, json |-> <<>>],
     [Text(Overlay(<<<<"SongAverageTempo", JFloat(Tempo)>>>>)) EXCEPT !.bom = 1],
     [Text(Overlay(<<<<"SongAverageTempo", JFloat(Tempo)>>>>)) EXCEPT !.bom = 2],
     Text(JInteger(1)), Text(JObject(<<>>)), Text(JObject(<<<<"Entries", JObject(<<>>)>>>>)),
     Text(JObject(<<<<"Entries", JInteger(1)>>>>)),
     Text(JObject(<<<<"Entries", JObject(<<<<"id", JNull>>>>)>>>>)),
     Text(JObject(<<<<"Entries", JObject(<<<<"id", JObject(<<>>)>>>>)>>>>)),
     Text(JObject(<<<<"Entries", JObject(<<<<"id", JObject(<<<<"Attributes",
                                                              JNull>>>>)>>>>)>>>>)),
     Text(JObject(<<<<"entries", JObject(<<<<"id", JObject(<<<<"attributes",
         JObject(<<<<"songAverageTempo", JFloat(Tempo)>>>>)>>>>)>>>>)>>>>)),
     Text(JObject(<<<<"Entries", JObject(<<
         <<"a", JObject(<<<<"Attributes", JObject(<<<<"SongName", JString("a")>>>>)>>>>)>>,
         <<"b", JObject(<<<<"Attributes", JObject(<<<<"SongAverageTempo",
                                                     JFloat(Tempo)>>>>)>>>>)>>>>)>>>>))}

ManifestTexts == {Text(Overlay(attributes)) : attributes \in AttributeShapes} \cup OtherTexts

\* archives of one SNG and one manifest of its stem, for every text
TextArchives ==
    {<<Entry(NamesBlockBin), SngEntry(LeadSng, RawSng0), JsonEntry(LeadJson, text)>> :
        text \in ManifestTexts}

\* archives whose entries fail to extract or to parse, whose SNG name occurs
\* twice, whose SNG is a vocal arrangement or has handshapes of equal start
Tied ==
    [RawSng0 EXCEPT
        !.arrangements[1].fingerprints_handshape = Fingerprints(0, <<1000>>),
        !.arrangements[1].fingerprints_arpeggio = Fingerprints(MaxShapes, <<1000>>)]
Vocal ==
    [RawSng0 EXCEPT !.vocals = <<[time |-> 0, note |-> 60, length |-> 250, lyric |-> "la"]>>]
OtherArchives ==
    LET names == Entry(NamesBlockBin)
        json == JsonEntry(LeadJson, TempoOf(LeadJson))
    IN {<<names>>,
        <<names, [SngEntry(LeadSng, RawSng0) EXCEPT !.extract = "throws"], json>>,
        <<names, Entry(LeadSng), json>>,
        <<names, SngEntry(LeadSng, RawSng0), [json EXCEPT !.extract = "throws"]>>,
        <<names, Entry(LeadSng), json, SngEntry(LeadSng, RawSng0)>>,
        <<names, SngEntry(LeadSng, RawSng0), json, Entry(LeadSng)>>,
        <<names, SngEntry(LeadSng, Vocal), json>>,
        <<names, SngEntry(LeadSng, Tied), SngEntry(BassSng, Tied)>>}

SngArchives == MatchArchives \cup TextArchives \cup OtherArchives

\* the converter on an open archive, before ConvertSng is called
ConverterIdle(entries) == [entries |-> entries, done |-> FALSE, exc |-> "none", files |-> <<>>]

ConvertInit ==
    /\ converter \in {ConverterIdle(entries) : entries \in SngArchives}
    /\ parser = Unused /\ writer = Unused /\ threads = Unused
    /\ SngIdle

\* PsarcFile::ConvertSng(output_directory); fs is what the file system does:
\* it takes the directories and the files ("ok"), it takes no file
\* ("read_only"), or it does not take output_directory ("no_directory")
ConvertSng(fs) ==
    /\ ~converter.done
    /\ IF fs = "no_directory"
       THEN converter' = [converter EXCEPT !.done = TRUE,
                                           !.exc = "std::filesystem::filesystem_error"]
       ELSE \E files \in ConvertAll(converter.entries, SngNames(converter.entries), fs) :
                converter' =
                    [converter EXCEPT
                        !.done = TRUE, !.files = files,
                        !.exc = IF \E i \in 1..Len(files) : files[i].exc # "none"
                                THEN "PsarcException" ELSE "none"]
    /\ UNCHANGED <<psarc, parser, writer, threads>>

ConvertNext == \E fs \in {"ok", "read_only", "no_directory"} : ConvertSng(fs)

ConvertSpec == ConvertInit /\ [][ConvertNext]_vars

(***************************************************************************)
(* Claims on ConvertSng.                                                   *)
(***************************************************************************)
\* the entry a converted SNG name stands for
SngEntryOf(file) == converter.entries[FileIndex(converter.entries, file.name) + 1]

\* the conversion of the SNG got as far as looking for its overlay
ReachedOverlay(file) == SngEntryOf(file).extract = "ok" /\ SngEntryOf(file).sng # <<>>

\* the manifest candidates: the indices of the entries whose path contains
\* "songs_dlc_" and ends in ".json"
Candidates ==
    {idx \in 0..(Len(converter.entries) - 1) :
        /\ Contains(converter.entries[idx + 1].name, ManifestMark)
        /\ EndsWith(converter.entries[idx + 1].name, JsonExt)}

\* the candidates of the stem of an SNG name, and those whose path contains it
StemEqual(sng_name) ==
    {idx \in Candidates :
        ToLower(Stem(converter.entries[idx + 1].name)) = ToLower(Stem(sng_name))}
PathContains(sng_name) ==
    {idx \in Candidates :
        Contains(ToLower(converter.entries[idx + 1].name), ToLower(Stem(sng_name)))}

SetMin(S) == CHOOSE x \in S : \A y \in S : x <= y

\* the overlay the SNG is to get, -1 for none
ExpectedOverlay(sng_name) ==
    IF StemEqual(sng_name) # {} THEN SetMin(StemEqual(sng_name))
    ELSE IF PathContains(sng_name) # {} THEN SetMin(PathContains(sng_name))
    ELSE -1

\* C19: for each SNG entry ConvertSng picks as overlay the first manifest
\* candidate in TOC order whose lower-cased stem equals the SNG's; only when
\* no candidate is stem-equal, the first candidate whose lower-cased path
\* contains the SNG stem; and when none matches, the XML is written without
\* overlay.
C19_OverlayPick ==
    converter.done =>
        \A k \in 1..Len(converter.files) :
            LET file == converter.files[k]
                expected == ExpectedOverlay(file.name)
            IN ReachedOverlay(file) =>
                   /\ file.overlay = expected
                   /\ file.exc = "none" =>
                          /\ file.doc # <<>>
                          /\ file.doc[1] \in
                                 Write(Decode(SngEntryOf(file).sng[1]),
                                       IF expected < 0 THEN NullPtr
                                       ELSE <<ParseManifestMetadata(
                                                  converter.entries[expected + 1].text)>>)

\* a conversion that passed over an earlier candidate whose path contains
\* the stem for a later one of equal stem, and one that found no overlay
\* among candidates
C19_Witness ==
    /\ converter.done
    /\ \E k \in 1..Len(converter.files) :
           LET file == converter.files[k] IN
           /\ file.exc = "none"
           /\ file.overlay >= 0
           /\ \E idx \in PathContains(file.name) : idx < file.overlay
           /\ file.overlay \in StemEqual(file.name)
    /\ \E k \in 1..Len(converter.files) :
           /\ converter.files[k].exc = "none"
           /\ converter.files[k].overlay = -1
           /\ Candidates # {}

\* the files ConvertSng saved as instrumental XML
SavedInstrumental ==
    {k \in 1..Len(converter.files) :
        /\ converter.files[k].exc = "none"
        /\ converter.files[k].doc[1].tag = "song"}

\* the text of the averageTempo element of a saved file
SavedTempo(k) == Child(converter.files[k].doc[1], "averageTempo").text[1]

\* the overlay handed to the writer supplies an average tempo
SuppliesTempo(k) ==
    /\ converter.files[k].manifest # NullPtr
    /\ converter.files[k].manifest[1].average_tempo # <<>>

\* C14: the averageTempo element of the instrumental XML carries the
\* overlay's average tempo when the overlay supplies one, and 120.0 in every
\* other case: no overlay was found, the overlay JSON could not be parsed, or
\* the overlay lacks the field.
C14_AverageTempo ==
    converter.done =>
        \A k \in SavedInstrumental :
            SavedTempo(k) = IF SuppliesTempo(k)
                            THEN FormatFloat(converter.files[k].manifest[1].average_tempo[1])
                            ELSE FormatFloat(120000)

\* what ConvertSng does keep of C14: the overlay's tempo when it supplies
\* one, and 120.0 when no overlay was found
TempoWithoutOverlay ==
    converter.done =>
        \A k \in SavedInstrumental :
            /\ SuppliesTempo(k) =>
                   SavedTempo(k) = FormatFloat(converter.files[k].manifest[1].average_tempo[1])
            /\ converter.files[k].overlay < 0 => SavedTempo(k) = FormatFloat(120000)

\* an overlay that is no JSON, and one that lacks the field, saved with the
\* tempo 0.000
TempoZero(kind) ==
    /\ converter.done
    /\ \E k \in SavedInstrumental :
           LET text == converter.entries[converter.files[k].overlay + 1].text IN
           /\ converter.files[k].overlay >= 0
           /\ IF kind = "no JSON" THEN text.json = <<>>
              ELSE text.json # <<>> /\ ResolveManifestSource(text.json[1]) # NullPtr
           /\ ~SuppliesTempo(k)
           /\ SavedTempo(k) = FormatFloat(0)
UnparsedOverlayTempoZero == TempoZero("no JSON")
OverlayWithoutTempoZero == TempoZero("no field")

\* the files whose overlay text led ParseManifestMetadata to its attributes
WithAttributes ==
    {k \in 1..Len(converter.files) :
        /\ converter.files[k].manifest # NullPtr
        /\ LET text == converter.entries[converter.files[k].overlay + 1].text IN
           /\ text.bom <= 1
           /\ text.json # <<>>
           /\ ResolveManifestSource(text.json[1]) # NullPtr}

\* the attributes object of the overlay of a file
AttributesOf(k) ==
    ResolveManifestSource(converter.entries[converter.files[k].overlay + 1].text.json[1])[1]

\* a JSON value has the type a member of type T is read from, and its value
RightType(T, value) ==
    IF T = "string" THEN value.type = "string" ELSE value.type \in {"integer", "float"}
ValueAs(T, value) ==
    IF T = "string" THEN value.s
    ELSE IF T = "float" THEN (IF value.type = "integer" THEN value.n * 1000 ELSE value.n)
    ELSE (IF value.type = "integer" THEN value.n ELSE ToInt(value.n))

\* the spellings of a key that obj has with a value of the right type
Spelled(T, obj, spellings) ==
    SelectSeq(spellings, LAMBDA key : JsonContains(obj, key) /\ RightType(T, JsonAt(obj, key)))

\* the optional a member of type T is to be read as: the value under the
\* first listed spelling when obj has it, else the value under the second
FirstListed(T, obj, spellings) ==
    LET present == SelectSeq(spellings, LAMBDA key : JsonContains(obj, key)) IN
    IF present = <<>> THEN <<>>
    ELSE IF RightType(T, JsonAt(obj, present[1])) THEN <<ValueAs(T, JsonAt(obj, present[1]))>>
    ELSE <<>>

\* both spellings of every key of the attributes are read, the first listed
\* one winning
SpellingsRead(k) ==
    LET manifest == converter.files[k].manifest[1] IN
    /\ \A i \in 1..Len(MetadataKeys) :
           manifest[MetadataKeys[i][1]]
               = FirstListed(MetadataKeys[i][2], AttributesOf(k), MetadataKeys[i][3])
    /\ \A i \in 1..Len(ToneKeys) :
           manifest.tone_names[i] = FirstListed("string", AttributesOf(k), ToneKeys[i])

\* a key of the attributes spelled either way with the right type is not
\* read as missing
SpellingsNotMissed(k) ==
    LET manifest == converter.files[k].manifest[1] IN
    /\ \A i \in 1..Len(MetadataKeys) :
           Spelled(MetadataKeys[i][2], AttributesOf(k), MetadataKeys[i][3]) # <<>>
               => manifest[MetadataKeys[i][1]] # <<>>
    /\ \A i \in 1..Len(ToneKeys) :
           Spelled("string", AttributesOf(k), ToneKeys[i]) # <<>>
               => manifest.tone_names[i] # <<>>

\* the nested ArrangementProperties object of the attributes, when it is one
PropertiesOf(k) ==
    LET present == SelectSeq(<<"ArrangementProperties", "arrangementProperties">>,
                             LAMBDA key : JsonContains(AttributesOf(k), key))
    IN IF present = <<>> THEN <<>>
       ELSE IF JsonAt(AttributesOf(k), present[1]).type # "object" THEN <<>>
       ELSE <<JsonAt(AttributesOf(k), present[1])>>

\* the fields of the nested object are read under the given spellings of
\* field i, the first listed one winning, a field of neither spelling as 0
PropertiesRead(k, Spellings(_)) ==
    PropertiesOf(k) # <<>> =>
        /\ converter.files[k].manifest[1].arrangement_properties # <<>>
        /\ \A i \in 1..Len(PropertyNames) :
               LET read == FirstListed("int", PropertiesOf(k)[1], Spellings(i)) IN
               converter.files[k].manifest[1].arrangement_properties[1][PropertyNames[i][2]]
                   = IF read = <<>> THEN 0 ELSE read[1]

BothSpellings(i) == <<PascalProperty[i], PropertyNames[i][1]>>
CamelOnly(i) == <<PropertyNames[i][1]>>

\* C18: every overlay key, the fields of the nested ArrangementProperties
\* included, is read under its PascalCase and under its camelCase spelling,
\* the first listed (PascalCase) one winning when both are present, and a
\* key present under either spelling with the right type is not read as
\* missing.
C18_BothSpellings ==
    converter.done =>
        \A k \in WithAttributes :
            /\ SpellingsRead(k)
            /\ SpellingsNotMissed(k)
            /\ PropertiesRead(k, BothSpellings)

\* what ParseManifestMetadata does keep of C18: both spellings of the keys
\* of the attributes, the first listed present one winning, and the
\* camelCase spelling of the nested fields
FirstListedPresent ==
    converter.done =>
        \A k \in WithAttributes : SpellingsRead(k) /\ PropertiesRead(k, CamelOnly)

\* a nested field given as 1 under its PascalCase spelling and saved as 0
PascalPropertyMissed ==
    /\ converter.done
    /\ \E k \in WithAttributes \cap SavedInstrumental :
           /\ PropertiesOf(k) # <<>>
           /\ \E i \in 1..Len(PropertyNames) :
                  /\ JsonContains(PropertiesOf(k)[1], PascalProperty[i])
                  /\ JsonAt(PropertiesOf(k)[1], PascalProperty[i]) = JInteger(1)
                  /\ Attribute(Child(converter.files[k].doc[1], "arrangementProperties"),
                               PropertyNames[i][1]) = 0

\* a key given with the right type under its camelCase spelling and read as
\* missing because its PascalCase spelling is null or of another type
ShadowedSpelling ==
    /\ converter.done
    /\ \E k \in WithAttributes :
           \E i \in 1..Len(MetadataKeys) :
               /\ Spelled(MetadataKeys[i][2], AttributesOf(k), MetadataKeys[i][3])
                      = <<MetadataKeys[i][3][2]>>
               /\ JsonContains(AttributesOf(k), MetadataKeys[i][3][1])
               /\ converter.files[k].manifest[1][MetadataKeys[i][1]] = <<>>

(***************************************************************************)
(* Two callers of ExtractFile on one PsarcFile.  The class has no lock     *)
(* (src/include/open-psarc/psarc_file.h, lines 89-95), so the calls of two *)
(* threads run step by step on the one m_file: the lookup, the seekg, each *)
(* pass of the read loop.  threads[t] is the call of thread t: where it    *)
(* is (pc), its locals, and what it returned or threw.                     *)
(***************************************************************************)
Thread0 ==
    [pc |-> "idle", file_name |-> <<>>, index |-> -1, z_index |-> 0, result |-> <<>>,
     exc |-> "none", msg |-> "", data |-> <<>>]

Threads == {1, 2}

Inside(t) == threads[t].pc \in {"seekg", "read"}

\* a thread's call ends: it returns data or throws
Returned(call, data) == [call EXCEPT !.pc = "done", !.data = data]
Thrown(call, exc, msg) == [call EXCEPT !.pc = "done", !.exc = exc, !.msg = msg]

\* ExtractFile, lines 735-743, and ExtractFileByIndex, lines 615-627: the
\* lookup of the name and the tests before the stream is touched
Begin(t, file_name) ==
    /\ m_is_open
    /\ threads[t].pc = "idle"
    /\ LET call == [threads[t] EXCEPT !.file_name = file_name] IN
       threads' =
           [threads EXCEPT ![t] =
               IF file_name \notin DOMAIN m_file_map
               THEN Thrown(call, "PsarcException", "File not found")
               ELSE IF m_entries[m_file_map[file_name] + 1].uncompressed_size = 0
               THEN Returned([call EXCEPT !.index = m_file_map[file_name]], <<>>)
               ELSE [call EXCEPT !.pc = "seekg", !.index = m_file_map[file_name]]]
    /\ UNCHANGED <<psarc, parser, writer, converter>>

\* lines 630-632: m_file->seekg(entry.offset); z_index = entry.start_chunk_index
Seek(t) ==
    /\ threads[t].pc = "seekg"
    /\ m_file' = Seekg(m_file, m_entries[threads[t].index + 1].offset)
    /\ threads' = [threads EXCEPT ![t].pc = "read",
                                  ![t].z_index = m_entries[threads[t].index + 1]
                                                     .start_chunk_index]
    /\ UNCHANGED <<disk, m_header, m_entries, m_z_lengths, m_file_map, m_is_open, ret,
                   parser, writer, converter>>

\* lines 704-711: the end of ExtractFileByIndex, once the loop is left
Finish(call, entry, result, ub) ==
    LET Sng(g) == IF g.exc # "none" THEN Thrown(call, g.exc, g.msg)
                  ELSE Returned(call, g.data)
    IN IF IsSngName(entry.name)
       THEN Sng(DecryptSng(Truncate(result, entry.uncompressed_size), ub))
       ELSE Returned(call, Truncate(result, entry.uncompressed_size))

\* a faulty NextChunk: the chunk index is not advanced
SameChunk(z_index) == z_index

\* line 641: m_z_lengths[z_index++]
NextChunk(z_index) == z_index + 1

\* lines 634-702: one pass of the loop, on the stream as the thread finds it
ReadPass(t, ub) ==
    /\ threads[t].pc = "read"
    /\ LET call  == threads[t]
           entry == m_entries[call.index + 1]
           size  == entry.uncompressed_size
           Next1(result) ==
               IF Len(result) < size
               THEN [call EXCEPT !.result = result, !.z_index = NextChunk(@)]
               ELSE Finish([call EXCEPT !.result = result, !.z_index = NextChunk(@)],
                           entry, result, ub)
           Block(r) ==
               /\ m_file' = r[1]
               /\ threads' =
                      [threads EXCEPT ![t] =
                          IF r[1].gcount = 0 /\ ~r[1].eof
                          THEN Thrown(call, "PsarcException",
                                      "Failed to read uncompressed block")
                          ELSE Next1(call.result \o r[2])]
           Chunk(r, z_len) ==
               /\ m_file' = r[1]
               /\ threads' =
                      [threads EXCEPT ![t] =
                          IF r[1].gcount # z_len
                          THEN Thrown(call, "PsarcException",
                                      "Failed to read compressed chunk")
                          ELSE Next1(call.result
                                     \o ChunkOutput(m_header.compression_method, r[2],
                                                    Min(size - Len(call.result),
                                                        m_header.block_size)))]
       IN IF call.z_index >= Len(m_z_lengths)
          THEN /\ threads' = [threads EXCEPT ![t] =
                                 Thrown(call, "PsarcException", "Chunk index out of range")]
               /\ UNCHANGED m_file
          ELSE IF m_z_lengths[call.z_index + 1] = 0
          THEN Block(StreamRead(m_file, disk, m_header.block_size))
          ELSE Chunk(StreamRead(m_file, disk, m_z_lengths[call.z_index + 1]),
                     m_z_lengths[call.z_index + 1])
    /\ UNCHANGED <<disk, m_header, m_entries, m_z_lengths, m_file_map, m_is_open, ret,
                   parser, writer, converter>>

\* two threads inside their calls use the std::ifstream at once: a data
\* race, whose outcomes are the passes above in any order, or the end of the
\* process
Crash ==
    /\ \A t \in Threads : Inside(t)
    /\ threads' = [t \in Threads |-> [threads[t] EXCEPT !.pc = "SIGSEGV"]]
    /\ UNCHANGED <<psarc, parser, writer, converter>>

\* archives of MaxFiles entries of one kind, named "f" and "n"
RaceArchives ==
    {Archive([Plain(KindFiles(kind), SmallBlock) EXCEPT !.comp = comp]) :
        kind \in {"deflate", "stored", "raw", "bytewise"}, comp \in Comps}

RaceInit ==
    /\ disk \in RaceArchives
    /\ m_file = NoFile
    /\ m_header = Header0
    /\ m_entries = <<>>
    /\ m_z_lengths = <<>>
    /\ m_file_map = EmptyMap
    /\ m_is_open = FALSE
    /\ ret = Ret0
    /\ threads = [t \in Threads |-> Thread0]
    /\ parser = Unused /\ writer = Unused /\ converter = Unused

RaceNext ==
    \/ ~m_is_open /\ Open(TRUE, "ok", "none")
    \/ \E t \in Threads, file_name \in (DOMAIN m_file_map) \cup {Missing} :
           Begin(t, file_name)
    \/ \E t \in Threads : Seek(t)
    \/ \E t \in Threads, ub \in UBReachable : ReadPass(t, ub)
    \/ Crash

RaceSpec == RaceInit /\ [][RaceNext]_vars

\* what ExtractFile returns or throws for a name when it runs alone on the
\* open archive
Alone(file_name) ==
    LET r == ExtractFileByIndex(m_file_map[file_name], NewStream, disk, m_header,
                                m_entries, m_z_lengths, "none")
    IN [exc |-> r.exc, data |-> r.data]

\* a thread's call is over and was for an entry of the archive
DoneWithEntry(t) == threads[t].pc = "done" /\ threads[t].index >= 0

\* C20: extraction on one archive runs under exclusive access: the seekg and
\* read steps of two ExtractFile calls issued concurrently on the same
\* PsarcFile never interleave on the shared file handle, and each call
\* returns the bytes of its own entry.
C20_ExclusiveExtract ==
    /\ ~(\A t \in Threads : Inside(t))
    /\ \A t \in Threads :
           DoneWithEntry(t) =>
               [exc |-> threads[t].exc, data |-> threads[t].data]
                   = Alone(threads[t].file_name)

\* what the code does keep of C20: a call that ran while no other call was
\* inside returns the bytes of its own entry
ExtractAlone ==
    \A t \in Threads :
        DoneWithEntry(t) /\ (\A u \in Threads \ {t} : threads[u].pc = "idle") =>
            [exc |-> threads[t].exc, data |-> threads[t].data] = Alone(threads[t].file_name)

\* a call that returned, without an exception, bytes that are not its entry's
ForeignBytes ==
    \E t \in Threads :
        /\ DoneWithEntry(t)
        /\ threads[t].exc = "none"
        /\ Alone(threads[t].file_name).exc = "none"
        /\ threads[t].data # Alone(threads[t].file_name).data

(***************************************************************************)
(* Extraction after extraction.  The stream m_file is shared by all calls: *)
(* a read that ends short sets failbit, which no code of PsarcFile clears.  *)
(***************************************************************************)
\* the stream as the Open of this archive left it: after the extraction of
\* entry 0 in ReadManifest
OpenStream ==
    ExtractFileByIndex(0, NewStream, disk, m_header, m_entries, m_z_lengths, "none").s

\* ExtractFile(file_name) made as the first call after Open
FirstExtract(file_name, ub) ==
    LET r == ExtractFileByIndex(m_file_map[file_name], OpenStream, disk, m_header,
                                m_entries, m_z_lengths, ub)
    IN [exc |-> r.exc, msg |-> r.msg, data |-> r.data]

\* the last call was an ExtractFile of an entry of the open archive
ExtractedEntry == ret.op = "ExtractFile" /\ ret.pre.is_open /\ ret.index >= 0

\* what the last call returned or threw
Outcome == [exc |-> ret.exc, msg |-> ret.msg, data |-> ret.data]

\* C21: on an open archive the outcome of ExtractFile(name) does not depend
\* on the extractions that ran before it: every call returns the bytes, or
\* the error, it would return as the first call after Open.
C21_HistoryFree ==
    ExtractedEntry => \E ub \in UBChoices : Outcome = FirstExtract(ret.arg, ub)

\* what the code does keep of C21: a call that finds the stream without
\* failbit returns what the first call after Open returns
HistoryFreeWhileGood ==
    ExtractedEntry /\ ret.pre.file_ok /\ ~OpenStream.fail =>
        \E ub \in UBChoices : Outcome = FirstExtract(ret.arg, ub)

\* an entry that the first call after Open returns is refused because an
\* earlier extraction left failbit set
RefusedAfterShortRead ==
    /\ ExtractedEntry
    /\ ~ret.pre.file_ok
    /\ ret.exc = "PsarcException"
    /\ FirstExtract(ret.arg, "none").exc = "none"

\* the same after an extraction that returned its bytes and read up to the
\* end of the file on the way
RefusedAfterEndOfFile ==
    /\ RefusedAfterShortRead
    /\ \A i \in 0..(Len(m_entries) - 1) :
           ExtractFileByIndex(i, NewStream, disk, m_header, m_entries, m_z_lengths,
                              "none").exc = "none"

(***************************************************************************)
(* What a failed Open leaves behind.                                       *)
(***************************************************************************)
\* C22: in every reachable state, IsOpen() = false implies that the entry
\* table, the name map and the chunk-length table are empty: a failed Open
\* leaves no partially parsed state behind.
C22_ClosedIsEmpty ==
    ~IsOpen => /\ GetFileCount(m_entries) = 0
               /\ m_file_map = EmptyMap
               /\ m_z_lengths = <<>>

\* what the code does keep of C22: the name map of a closed archive is empty
ClosedMapIsEmpty == ~IsOpen => m_file_map = EmptyMap

\* an Open failed and GetFileCount() is not 0
CountAfterFailedOpen ==
    /\ ret.op = "Open"
    /\ ret.exc = "PsarcException"
    /\ ~IsOpen
    /\ GetFileCount(m_entries) > 0

\* an Open found chunk lengths left over by a failed Open and added its own
AppendedToLeftOver ==
    /\ ret.op = "Open"
    /\ ~ret.pre.is_open
    /\ ret.pre.z_lengths > 0
    /\ Len(m_z_lengths) > ret.pre.z_lengths

(***************************************************************************)
(* The loop of ExtractFileByIndex, pass by pass, for one caller that makes *)
(* call after call on archives whose chunks are missing or misnumbered.     *)
(***************************************************************************)
Caller == CHOOSE t \in Threads : \A u \in Threads : t <= u

\* MaxFiles entries, every one stored in blocks read with z_len 0
AllStored ==
    Plain([i \in 1..MaxFiles |->
              EncFile("stored", IF i = 1 THEN <<102, 10, 110, 10>> ELSE Content(i - 1),
                      SmallBlock)],
          SmallBlock)

\* the bytes after the manifest, which a damaged archive has lost
LostBytes(a) == SumSeq([i \in 1..(Len(a.files) - 1) |-> RawLen(a.files[i + 1])])

LoopArchives ==
    {Archive([AllStored EXCEPT !.cut = k]) : k \in 0..LostBytes(AllStored)}
    \cup {Archive([Plain(KindFiles(kind), SmallBlock) EXCEPT !.shift[k] = d, !.cut = c]) :
             kind \in {"deflate", "stored", "raw"}, k \in 2..MaxFiles, d \in 0..2,
             c \in {0, 1}}
    \cup {Archive(Trailing)}

LoopInit ==
    /\ disk \in LoopArchives
    /\ m_file = NoFile
    /\ m_header = Header0
    /\ m_entries = <<>>
    /\ m_z_lengths = <<>>
    /\ m_file_map = EmptyMap
    /\ m_is_open = FALSE
    /\ ret = Ret0
    /\ threads = [t \in Threads |-> Thread0]
    /\ parser = Unused /\ writer = Unused /\ converter = Unused

\* the caller has its result and is free to call again
Return(t) ==
    /\ threads[t].pc = "done"
    /\ threads' = [threads EXCEPT ![t] = Thread0]
    /\ UNCHANGED <<psarc, parser, writer, converter>>

LoopNext ==
    \/ ~m_is_open /\ Open(TRUE, "ok", "none")
    \/ \E file_name \in (DOMAIN m_file_map) \cup {Missing} : Begin(Caller, file_name)
    \/ Seek(Caller)
    \/ \E ub \in UBReachable : ReadPass(Caller, ub)
    \/ Return(Caller)

\* a call that has begun keeps running: the caller's thread executes its next
\* statement
LoopSpec ==
    /\ LoopInit
    /\ [][LoopNext]_vars
    /\ WF_vars(Seek(Caller))
    /\ WF_vars(\E ub \in UBReachable : ReadPass(Caller, ub))

\* the caller is in the loop and has not produced uncompressed_size bytes
Short ==
    /\ threads[Caller].pc = "read"
    /\ Len(threads[Caller].result) < m_entries[threads[Caller].index + 1].uncompressed_size

\* C23: ExtractFileByIndex always terminates: every pass of its loop consumes
\* one chunk-length entry inside the table, a pass that finds the chunk index
\* at |z_lengths| ends the call with "Chunk index out of range", and every
\* call that has begun ends.
C23_Terminates ==
    /\ [][threads[Caller].pc = "read" =>
             \/ threads'[Caller].pc = "done"
             \/ /\ threads'[Caller].pc = "read"
                /\ threads[Caller].z_index < Len(m_z_lengths)
                /\ threads'[Caller].z_index = threads[Caller].z_index + 1]_vars
    /\ [][Short /\ threads[Caller].z_index >= Len(m_z_lengths) =>
             /\ threads'[Caller].pc = "done"
             /\ threads'[Caller].exc = "PsarcException"
             /\ threads'[Caller].msg = "Chunk index out of range"]_vars
    /\ (Inside(Caller) ~> threads[Caller].pc = "done")

\* a call whose reads all returned zero bytes at the end of the file has
\* used up the table and failed
C23_Witness ==
    /\ threads[Caller].pc = "done"
    /\ threads[Caller].msg = "Chunk index out of range"
    /\ threads[Caller].result = <<>>
    /\ threads[Caller].z_index = Len(m_z_lengths)
    /\ threads[Caller].z_index
           > m_entries[threads[Caller].index + 1].start_chunk_index + 1
    /\ m_file.eof /\ m_file.gcount = 0

(***************************************************************************)
(* The name map and the entry table.                                       *)
(***************************************************************************)
\* PsarcFile::GetEntry(file_name): the entry's index, -1 for nullptr
GetEntry(file_name) ==
    IF file_name \in DOMAIN m_file_map THEN m_file_map[file_name] ELSE -1

\* every mapped index is an index of the entry table and the entry there
\* carries the mapped name; every name of GetFileList resolves to an entry of
\* that name, through GetEntry and through ExtractFile
MapAgrees ==
    /\ \A name \in DOMAIN m_file_map :
           /\ m_file_map[name] \in 0..(Len(m_entries) - 1)
           /\ m_entries[m_file_map[name] + 1].name = name
    /\ \A name \in Range(GetFileList(m_entries)) :
           /\ GetEntry(name) >= 0
           /\ m_entries[GetEntry(name) + 1].name = name
    /\ (ret.op = "ExtractFile" /\ ret.index >= 0 => RetEntry.name = ret.arg)

\* C24: in every reachable state the name map agrees with the entry table,
\* for any names manifest, one with duplicate lines or with a line equal to
\* "NamesBlock.bin" included, and "NamesBlock.bin" maps to entry 0.
C24_NameMap ==
    /\ MapAgrees
    /\ (m_is_open => GetEntry(NamesBlockBin) = 0)

\* what the code does keep of C24: all of it but the index of "NamesBlock.bin"
NameMapAgrees == MapAgrees /\ (m_is_open => GetEntry(NamesBlockBin) >= 0)

\* the manifest has a line "NamesBlock.bin" and ExtractFile("NamesBlock.bin")
\* returned another entry than the manifest
ManifestShadowed ==
    /\ Extracted
    /\ ret.arg = NamesBlockBin
    /\ ret.index = 1
    /\ ret.data # Assembled(0).data

\* two lines of the manifest are equal: both entries carry the name, the map
\* holds the later one
DuplicateLines ==
    /\ m_is_open
    /\ \E i, j \in 1..Len(m_entries) :
           /\ i < j
           /\ m_entries[i].name = m_entries[j].name
           /\ m_entries[i].name # <<>>
           /\ GetEntry(m_entries[i].name) = j - 1

(***************************************************************************)
(* PsarcFile::DecryptSng on its own: the SNG decoder applied to buffers    *)
(* that are SNG files, SNG files cut short and buffers of other content.    *)
(***************************************************************************)
\* the longest payload, in bytes after the decryption
MaxPayload == 18

\* the flags words of the buffers: bit 0 is the compressed flag
SngFlags == 0..3

\* plaintexts: bytes that are no size and stream, a size followed by a zlib
\* stream, by a raw deflate stream, by bytes that are no stream, and all their
\* prefixes
SngPlains ==
    {Take(p, k) :
        p \in {<<1, 2, 3>>,
               LE32(3) \o EncZlib(<<9, 8, 7>>),
               LE32(5) \o EncDeflate(<<9, 8, 7>>),
               LE32(3) \o <<102, 111>>,
               [i \in 1..MaxPayload |-> i]},
        k \in 0..MaxPayload}

OtherIv == <<250, 15, 14, 13, 12, 11, 10, 9, 8, 7, 6, 5, 4, 3, 2, 1>>

\* the magic numbers of the buffers: the right one, one with another low
\* byte, one with another high byte
SngMagics == {g_sng_magic, g_sng_magic + 1, g_sng_magic + 16777216}

SngInputs ==
    {EncSng(magic, flags, iv, plain) :
        magic \in SngMagics, flags \in SngFlags, iv \in {SngIv, OtherIv}, plain \in SngPlains}
    \cup {Take(EncSng(g_sng_magic, flags, SngIv, <<>>), k) : flags \in SngFlags, k \in 0..23}

DecoderInit ==
    /\ SngIdle
    /\ parser = Unused /\ writer = Unused /\ converter = Unused /\ threads = Unused

\* one call of DecryptSng(data)
CallDecryptSng(data, ub) ==
    LET Answer(r) ==
            ret' = [Result("DecryptSng", data, r.exc, r.msg) EXCEPT !.data = r.data]
    IN /\ Answer(DecryptSng(data, ub))
       /\ UNCHANGED <<others, disk, m_file, m_header, m_entries, m_z_lengths, m_file_map,
                      m_is_open>>

DecoderNext == \E data \in SngInputs, ub \in UBChoices : CallDecryptSng(data, ub)

DecoderSpec == DecoderInit /\ [][DecoderNext]_vars

\* the last call was DecryptSng
Decoded == ret.op = "DecryptSng"

\* the buffer of the last call has the 24 bytes of the prefix and the magic
WellHeaded == Len(ret.arg) >= 24 /\ Take(ret.arg, 4) = <<74, 0, 0, 0>>

\* bit 0 of the little-endian flags word at bytes 4..8
Flagged == ret.arg[5] % 2 = 1

\* the buffer is the SNG file that holds plain, encrypted under the IV at
\* its bytes 8..24
Holds(plain) ==
    ret.arg = Take(ret.arg, 8) \o Slice(ret.arg, 8, 16)
                  \o [i \in 1..Len(plain) |->
                         (plain[i] + CtrKey(Slice(ret.arg, 8, 16), i)) % 256]

\* C25: DecryptSng fails, before any decryption, for every input shorter than
\* 24 bytes and for every input whose first four bytes are not 0x0000004A
\* little-endian; every other input is decrypted from byte 24 onward under
\* the IV at bytes 8..24, and inflated only when bit 0 of the flags is set.
C25_Decoder ==
    Decoded =>
        /\ Len(ret.arg) < 24 =>
               ret.exc = "PsarcException" /\ ret.msg = "SNG data too short" /\ ret.data = <<>>
        /\ Len(ret.arg) >= 24 /\ ~WellHeaded =>
               ret.exc = "PsarcException" /\ ret.msg = "Invalid SNG magic" /\ ret.data = <<>>
        /\ WellHeaded /\ ~Flagged => ret.exc = "none" /\ Holds(ret.data)
        /\ WellHeaded /\ Flagged /\ Len(ret.arg) >= 28 =>
               /\ ret.exc = "none"
               /\ \E plain \in SngPlains :
                      /\ Holds(plain)
                      /\ ret.data = DecompressZlib(Drop(plain, 4), ReadLE32(plain, 0))

\* a buffer whose flags have bit 1 but not bit 0 set, holding a size and a
\* zlib stream, came back decrypted and not inflated
C25_Witness ==
    /\ Decoded
    /\ WellHeaded
    /\ ret.arg[5] = 2
    /\ Slice(ret.arg, 8, 16) = OtherIv
    /\ ret.data = LE32(3) \o EncZlib(<<9, 8, 7>>)

\* a buffer flagged compressed came back inflated
InflatedWhenFlagged ==
    /\ Decoded
    /\ WellHeaded
    /\ Flagged
    /\ Holds(LE32(3) \o EncZlib(<<9, 8, 7>>))
    /\ ret.data = <<9, 8, 7>>

\* C26: a buffer flagged compressed whose payload after the 24-byte prefix
\* has 0..3 bytes is rejected with an error; the 4-byte uncompressed_size is
\* read only from a decrypted payload of at least 4 bytes.
C26_ShortPayload ==
    Decoded /\ WellHeaded /\ Flagged /\ Len(ret.arg) < 28 =>
        ret.exc = "PsarcException"

\* the size was read past the end of a payload of 0..3 bytes: the process
\* ended, or the call returned
ReadPastPayload ==
    /\ Decoded /\ WellHeaded /\ Flagged
    /\ Len(ret.arg) < 28
    /\ ret.exc \in {"SIGSEGV", "none"}

(***************************************************************************)
(* BinaryReader (src/src/sng_parser.cpp) read by read: the buffer, the     *)
(* position m_pos and the last call with what it returned or threw.  A     *)
(* caller that catches the exception of a read can go on reading.          *)
(***************************************************************************)
\* the longest of the short buffers
MaxBuffer == 5

\* the sizes ReadFixedString and Skip are called with: 12 is the shortest
\* string field of an SNG (SymbolDefinition::text)
FieldSizes == {0, 1, 3, 12}

\* "AB", NUL, "C", NUL, 0xFF and ten bytes more: a buffer that holds every field
LongBuffer == <<65, 66, 0, 67, 0, 255, 1, 2, 3, 4, 5, 6, 128, 7, 8, 9>>

ReaderBuffers ==
    UNION {[1..n -> {0, 65, 255}] : n \in 0..MaxBuffer}
    \cup {Drop(LongBuffer, k) : k \in 0..3}

\* no call yet
NoRead == [op |-> "none", width |-> 0, at |-> 0, value |-> <<>>]

ReaderInit ==
    /\ \E d \in ReaderBuffers : parser = [data |-> d, r |-> Reader0("ok"), last |-> NoRead]
    /\ SngIdle
    /\ writer = Unused /\ converter = Unused /\ threads = Unused

\* the bytes of s before its first NUL: the loop of ReadFixedString
RECURSIVE BeforeNul(_, _)
BeforeNul(s, len) ==
    IF len < Len(s) /\ s[len + 1] # 0 THEN BeforeNul(s, len + 1) ELSE Take(s, len)

\* static_cast<int8_t>, static_cast<int16_t>
ToInt8(v) == IF v >= 128 THEN v - 256 ELSE v
ToInt16(v) == IF v >= 32768 THEN v - 65536 ELSE v

\* m_data[m_pos] | (m_data[m_pos + 1] << 8)
UInt16At(data, p) == data[p + 1] + data[p + 2] * 256

\* what a read of the named method returns at position p: the integers as
\* one number (ReadUInt32 as its low and high 16 bits), the floating-point
\* numbers as the bytes memcpy copies
ValueAt(op, data, p, w) ==
    CASE op = "ReadInt8"        -> <<ToInt8(data[p + 1])>>
      [] op = "ReadUInt8"       -> <<data[p + 1]>>
      [] op = "ReadInt16"       -> <<ToInt16(UInt16At(data, p))>>
      [] op = "ReadUInt16"      -> <<UInt16At(data, p)>>
      [] op = "ReadInt32"       -> <<Int32At(data, p)>>
      [] op = "ReadUInt32"      -> <<UInt16At(data, p), UInt16At(data, p + 2)>>
      [] op = "ReadFixedString" -> BeforeNul(Slice(data, p, w), 0)
      [] op = "Skip"            -> <<>>
      [] OTHER                  -> Slice(data, p, w)

\* one call of a read method of width w: EnsureAvailable(w), the value,
\* m_pos += w
Read(op, w) ==
    LET Checked(r) ==
            IF r.exc # "none"
            THEN [parser EXCEPT !.r = r,
                                !.last = [op |-> op, width |-> w, at |-> parser.r.pos,
                                          value |-> <<>>]]
            ELSE [parser EXCEPT !.r = [r EXCEPT !.pos = @ + w],
                                !.last = [op |-> op, width |-> w, at |-> parser.r.pos,
                                          value |-> ValueAt(op, parser.data, r.pos, w)]]
    IN /\ parser' = Checked(EnsureAvailable([parser.r EXCEPT !.exc = "none", !.msg = <<>>],
                                            Len(parser.data), w))
       /\ UNCHANGED <<psarc, writer, converter, threads>>

ReadFloat == Read("ReadFloat", 4)
ReadDouble == Read("ReadDouble", 8)
ReadInt8Call == Read("ReadInt8", 1)
ReadUInt8 == Read("ReadUInt8", 1)
ReadInt16 == Read("ReadInt16", 2)
ReadUInt16 == Read("ReadUInt16", 2)
ReadInt32 == Read("ReadInt32", 4)
ReadUInt32 == Read("ReadUInt32", 4)
ReadFixedString(size) == Read("ReadFixedString", size)
Skip(bytes) == Read("Skip", bytes)

ReaderNext ==
    \/ ReadFloat
    \/ ReadDouble
    \/ ReadInt8Call
    \/ ReadUInt8
    \/ ReadInt16
    \/ ReadUInt16
    \/ ReadInt32
    \/ ReadUInt32
    \/ \E size \in FieldSizes : ReadFixedString(size)
    \/ \E bytes \in FieldSizes : Skip(bytes)

ReaderSpec == ReaderInit /\ [][ReaderNext]_vars

\* Position(), Size()
Position == parser.r.pos
Size == Len(parser.data)

\* the window of the last read and the place of its first NUL, if any
Window == Slice(parser.data, parser.last.at, parser.last.width)
Nuls == {i \in 1..Len(Window) : Window[i] = 0}

\* C27: a read of width w at position p succeeds if and only if
\* p + w <= length and then advances the position by exactly w,
\* ReadFixedString(n) by n wherever the first NUL lies, returning the bytes
\* before it; otherwise it fails with "read past end" at offset p, need w,
\* available length - p, and leaves the position where it was.  The position
\* never exceeds the length of the buffer.
C27_Reads ==
    /\ Position <= Size
    /\ parser.last.op # "none" =>
           LET p == parser.last.at
               w == parser.last.width
           IN IF p + w <= Size
              THEN /\ parser.r.exc = "none"
                   /\ Position = p + w
                   /\ parser.last.op = "ReadFixedString" =>
                          /\ parser.last.value
                                 = Take(Window, IF Nuls = {} THEN w
                                                ELSE (CHOOSE i \in Nuls :
                                                          \A j \in Nuls : i <= j) - 1)
              ELSE /\ parser.r.exc = "PsarcException"
                   /\ parser.r.msg = <<"read past end", p, w, Size - p>>
                   /\ Position = p

\* ReadFixedString(12) returned "C" from a window with a NUL at its second
\* and at a later byte, and stepped over all 12 bytes
C27_Witness ==
    /\ parser.last.op = "ReadFixedString"
    /\ parser.last.width = 12
    /\ parser.last.value = <<67>>
    /\ Position = parser.last.at + 12
    /\ Position < Size

\* a read that ends exactly at the end of the buffer succeeded, and the read
\* after it failed with nothing available
ReadAtTheEnd ==
    /\ Position = Size
    /\ Size > 0
    /\ parser.r.exc = "PsarcException"
    /\ parser.r.msg = <<"read past end", Size, parser.last.width, 0>>

(***************************************************************************)
(* ReadChordNotes with the values it reads (sng_parser.cpp, lines          *)
(* 134-243): the section reader above keeps the sizes only.                 *)
(***************************************************************************)
\* one read of the reader rd: [r, v], the reader after it and the value
Fetch(rd, data, op, w) ==
    LET Checked(c) ==
            IF c.exc # "none" THEN [r |-> c, v |-> <<>>]
            ELSE [r |-> [c EXCEPT !.pos = @ + w], v |-> ValueAt(op, data, c.pos, w)]
    IN IF rd.exc # "none" THEN [r |-> rd, v |-> <<>>]
       ELSE Checked(EnsureAvailable(rd, Len(data), w))

\* sng::BendValue{}
BendValue0 == [time |-> <<0, 0, 0, 0>>, step |-> <<0, 0, 0, 0>>, unk1 |-> <<0>>,
               unk2 |-> <<0>>, unk3 |-> <<0>>]

\* ReadBendValue(reader)
ReadBendValue(rd, data) ==
    LET Unk3(t, s, a, b, c) ==
            [r |-> c.r,
             v |-> [time |-> t.v, step |-> s.v, unk1 |-> a.v, unk2 |-> b.v, unk3 |-> c.v]]
        Unk2(t, s, a, b) == Unk3(t, s, a, b, Fetch(b.r, data, "ReadUInt8", 1))
        Unk1(t, s, a) == Unk2(t, s, a, Fetch(a.r, data, "ReadUInt8", 1))
        Step(t, s) == Unk1(t, s, Fetch(s.r, data, "ReadInt16", 2))
        Time(t) == Step(t, Fetch(t.r, data, "ReadFloat", 4))
    IN Time(Fetch(rd, data, "ReadFloat", 4))

RECURSIVE ReadBendValues(_, _, _, _)
\* for (auto& bv : bd.bend_values) bv = ReadBendValue(reader), n more times
ReadBendValues(rd, data, n, acc) ==
    LET More(b) == ReadBendValues(b.r, data, n - 1, Append(acc, b.v))
    IN IF rd.exc # "none" \/ n = 0 THEN [r |-> rd, v |-> acc]
       ELSE More(ReadBendValue(rd, data))

\* bd.bend_values.resize(bd.used_count), for a used_count that is not negative
ResizeTo(values, used_count) == Resize(values, used_count, BendValue0)

\* the body of for (auto& bd : cn.bend_data): resize(32), 32 bend values,
\* used_count, resize(used_count); a negative used_count is a size above
\* max_size()
ReadBendDataOf(rd, data) ==
    LET Sized(bvs, used) ==
            IF used.r.exc # "none" THEN [r |-> used.r, v |-> <<>>]
            ELSE IF used.v[1] < 0
            THEN [r |-> [used.r EXCEPT !.exc = "std::length_error",
                                       !.msg = <<"vector::_M_default_append">>],
                  v |-> <<>>]
            ELSE [r |-> used.r,
                  v |-> [bend_values |-> ResizeTo(bvs.v, used.v[1]),
                         used_count |-> used.v[1]]]
        Count(bvs) == Sized(bvs, Fetch(bvs.r, data, "ReadInt32", 4))
    IN Count(ReadBendValues(rd, data, 32, <<>>))

RECURSIVE ReadBendDataArray(_, _, _, _)
ReadBendDataArray(rd, data, n, acc) ==
    LET More(b) == ReadBendDataArray(b.r, data, n - 1, Append(acc, b.v))
    IN IF rd.exc # "none" \/ n = 0 THEN [r |-> rd, v |-> acc]
       ELSE More(ReadBendDataOf(rd, data))

RECURSIVE ReadArray(_, _, _, _, _, _)
\* for (auto& x : array) x = reader.Read...(), n more times
ReadArray(rd, data, op, w, n, acc) ==
    LET More(b) == ReadArray(b.r, data, op, w, n - 1, Append(acc, b.v))
    IN IF rd.exc # "none" \/ n = 0 THEN [r |-> rd, v |-> acc]
       ELSE More(Fetch(rd, data, op, w))

\* the body of for (auto& cn : chord_notes)
ReadChordNotesOf(rd, data) ==
    LET Vibrato(m, b, s, u, v) ==
            [r |-> v.r,
             v |-> [mask |-> m.v, bend_data |-> b.v, slide_to |-> s.v,
                    slide_unpitch_to |-> u.v, vibrato |-> v.v]]
        Unpitch(m, b, s, u) ==
            Vibrato(m, b, s, u, ReadArray(u.r, data, "ReadInt16", 2, 6, <<>>))
        Slide(m, b, s) == Unpitch(m, b, s, ReadArray(s.r, data, "ReadInt8", 1, 6, <<>>))
        Bend(m, b) == Slide(m, b, ReadArray(b.r, data, "ReadInt8", 1, 6, <<>>))
        Mask(m) == Bend(m, ReadBendDataArray(m.r, data, 6, <<>>))
    IN Mask(ReadArray(rd, data, "ReadUInt32", 4, 6, <<>>))

RECURSIVE ReadChordNotesArray(_, _, _, _)
ReadChordNotesArray(rd, data, n, acc) ==
    LET More(b) == ReadChordNotesArray(b.r, data, n - 1, Append(acc, b.v))
    IN IF rd.exc # "none" \/ n = 0 THEN [r |-> rd, v |-> acc]
       ELSE More(ReadChordNotesOf(rd, data))

\* ReadChordNotes(reader): [r, v], the reader and the vector returned
ReadChordNotesValues(rd, data) ==
    LET Sized(count) ==
            IF count.r.exc # "none" THEN [r |-> count.r, v |-> <<>>]
            ELSE IF count.v[1] < 0
            THEN [r |-> [count.r EXCEPT !.exc = "std::length_error",
                                        !.msg = <<"vector too long">>],
                  v |-> <<>>]
            ELSE ReadChordNotesArray(count.r, data, count.v[1], <<>>)
    IN Sized(Fetch(rd, data, "ReadInt32", 4))

(***************************************************************************)
(* The chord-notes sections of BendInit.                                   *)
(***************************************************************************)
\* the largest used_count of the sections
MaxUsed == 34

\* a 32-bit little-endian word of a number that may be negative
LE32s(n) == IF n >= 0 THEN LE32(n) ELSE [i \in 1..4 |-> 255 - LE32(-(n + 1))[i]]

\* bend value k of string s of chord note c, as the section holds it
EncBendValue(c, s, k) == <<k, s, c, 64>> \o <<128, k, 0, 63>> \o <<k, 255>> \o <<s, c>>

\* a chord note whose strings have the used counts used[1..6]
EncChordNote(c, used) ==
    Zeros(24)
    \o Flatten([s \in 1..6 |->
           Flatten([k \in 1..32 |-> EncBendValue(c, s, k)]) \o LE32s(used[s])])
    \o Zeros(24)

UsedCounts == {-1, 0, 1, 31, 32, 33, MaxUsed}

\* the used counts of a chord note: those of strings 1, 2 and 6, 0 for the
\* others
Used(a, b, f) == <<a, b, 0, 0, 0, f>>

BendBuffers ==
    {LE32(1) \o EncChordNote(1, Used(a, b, f)) : a, b \in UsedCounts, f \in {0, 2, 33}}
    \cup {LE32(2) \o EncChordNote(1, Used(a, 3, 32)) \o EncChordNote(2, Used(32, 0, a)) :
             a \in UsedCounts}
    \cup {Take(LE32(1) \o EncChordNote(1, Used(1, 2, 3)), k) : k \in {0, 3, 4, 30, 420, 2375}}
    \cup {LE32(0), LE32s(-1)}

BendInit ==
    /\ \E d \in BendBuffers :
           parser = [data |-> d, done |-> FALSE, r |-> Reader0("ok"), chord_notes |-> <<>>]
    /\ SngIdle
    /\ writer = Unused /\ converter = Unused /\ threads = Unused

\* one call of ReadChordNotes on the buffer
CallReadChordNotes ==
    LET Store(b) == [parser EXCEPT !.done = TRUE, !.r = b.r, !.chord_notes = b.v]
    IN /\ ~parser.done
       /\ parser' = Store(ReadChordNotesValues(parser.r, parser.data))
       /\ UNCHANGED <<psarc, writer, converter, threads>>

BendNext == CallReadChordNotes

BendSpec == BendInit /\ [][BendNext]_vars

\* ReadChordNotes has returned
ChordNotesRead == parser.done /\ parser.r.exc = "none"

\* the bytes of a chord note, of the bend data of a string, of a bend value
ChordNoteBytes == 24 + 6 * (32 * 12 + 4) + 24

\* where bend value k of string s of chord note c lies in the buffer
BendValueAt(c, s, k) == 4 + (c - 1) * ChordNoteBytes + 24 + (s - 1) * (32 * 12 + 4) + (k - 1) * 12

\* bend value k of string s of chord note c as the buffer holds it
Recorded(c, s, k) == Slice(parser.data, BendValueAt(c, s, k), 12)

\* the bytes of a bend value of the result: unk1 is the only field that is
\* not kept as bytes
BytesOf(bv) ==
    bv.time \o bv.step \o <<bv.unk1[1] % 256, (bv.unk1[1] \div 256) % 256>> \o bv.unk2 \o bv.unk3

\* bend_data[s] of chord note c is the 32 records cut to used_count
Truncated(c, s) ==
    LET bd == parser.chord_notes[c].bend_data[s] IN
    /\ Len(bd.bend_values) = bd.used_count
    /\ Len(bd.bend_values) <= 32
    /\ \A k \in 1..Len(bd.bend_values) : BytesOf(bd.bend_values[k]) = Recorded(c, s, k)

\* C28: after ReadChordNotes, every bend_data[s] is the array of 32 records
\* truncated to used_count: its length is used_count, never more than 32, its
\* elements are the first used_count records read; 32 records and the 4-byte
\* count are consumed per string whatever used_count is.
C28_BendData ==
    ChordNotesRead =>
        /\ parser.r.pos = 4 + Len(parser.chord_notes) * ChordNoteBytes
        /\ \A c \in 1..Len(parser.chord_notes), s \in 1..6 : Truncated(c, s)

\* what the code does keep of C28: the bytes consumed, the length, the
\* records of every string whose used_count is at most 32; the elements
\* after the 32nd are value-initialised
BendDataWithin32 ==
    ChordNotesRead =>
        /\ parser.r.pos = 4 + Len(parser.chord_notes) * ChordNoteBytes
        /\ parser.r.pos = ReadChordNotes(Reader0("ok"), parser.data).pos
        /\ \A c \in 1..Len(parser.chord_notes), s \in 1..6 :
               LET bd == parser.chord_notes[c].bend_data[s] IN
               /\ Len(bd.bend_values) = bd.used_count
               /\ bd.used_count <= 32 => Truncated(c, s)
               /\ \A k \in 33..Len(bd.bend_values) : bd.bend_values[k] = BendValue0

\* a used_count of 33: the vector has grown to 33 elements, the last of
\* which was never read
GrownPastTheRecords ==
    /\ ChordNotesRead
    /\ \E c \in 1..Len(parser.chord_notes), s \in 1..6 :
           LET bd == parser.chord_notes[c].bend_data[s] IN
           /\ bd.used_count = 33
           /\ Len(bd.bend_values) = 33
           /\ bd.bend_values[33] = BendValue0
           /\ BytesOf(bd.bend_values[32]) = Recorded(c, s, 32)

\* a negative used_count ends the parse with std::length_error
NegativeUsedCount ==
    /\ parser.done
    /\ parser.r.exc = "std::length_error"
    /\ parser.r.pos = BendValueAt(1, 1, 33) + 4

(***************************************************************************)
(* The fret and finger bytes of a chord template in the saved XML.         *)
(***************************************************************************)
\* byte b of a template's frets or fingers, when not 0xFF, is the value of
\* the attribute of its string
TemplateEmits(t, member, AttributeN) ==
    \A i \in 1..6 :
        writer.raw.chords[t][member][i] # 255 =>
            /\ HasAttribute(SavedTemplates[t], AttributeN[i])
            /\ Attribute(SavedTemplates[t], AttributeN[i]) = writer.raw.chords[t][member][i]

\* the chordNote of string s under a saved chord, if there is one
ChordNoteOf(chord, s) ==
    SelectSeq(Children(chord, "chordNote"), LAMBDA cn : Attribute(cn, "string") = s)

\* a chord with the chord panel has, for every string whose template fret is
\* not 0xFF, one chordNote with that fret, and with the template's finger as
\* leftHand when the finger is not 0xFF
ExpansionEmits(note, chord) ==
    Has(note.mask, "CHORDPANEL") /\ note.chord_id < Len(writer.raw.chords) =>
        LET template == writer.raw.chords[note.chord_id + 1] IN
        \A s \in 0..5 :
            template.frets[s + 1] # 255 =>
                /\ Len(ChordNoteOf(chord, s)) = 1
                /\ Attribute(ChordNoteOf(chord, s)[1], "fret") = template.frets[s + 1]
                /\ template.fingers[s + 1] # 255 =>
                       /\ HasAttribute(ChordNoteOf(chord, s)[1], "leftHand")
                       /\ Attribute(ChordNoteOf(chord, s)[1], "leftHand")
                              = template.fingers[s + 1]

UnsignedBytes ==
    /\ \A t \in 1..Len(writer.raw.chords) :
           TemplateEmits(t, "frets", FretN) /\ TemplateEmits(t, "fingers", FingerN)
    /\ \A l \in 1..Len(writer.raw.arrangements) :
           \A k \in 1..Len(RawChords(l)) : ExpansionEmits(RawChords(l)[k], SavedChords(l)[k])

\* C29: a chord-template fret or finger byte b other than 0xFF is treated as
\* present and emitted with its unsigned value b (0..254), in the fretN and
\* fingerN attributes of the chordTemplate and in the chordNote expansion
\* alike; only 0xFF is absent.
C29_UnsignedTemplateBytes == Instrumental => UnsignedBytes

\* the fret and finger bytes of every template are 0..127 or 0xFF
SevenBitTemplates ==
    \A t \in 1..Len(writer.raw.chords), i \in 1..6 :
        /\ writer.raw.chords[t].frets[i] \in (0..127) \cup {255}
        /\ writer.raw.chords[t].fingers[i] \in (0..127) \cup {255}

\* what the writer does keep of C29: the bytes 0..127
UnsignedUpTo127 == Instrumental /\ SevenBitTemplates => UnsignedBytes

\* a finger byte in 0x80..0xFE is saved as a negative fingerN of the
\* chordTemplate and as the unsigned leftHand of the chordNote
FingerOfTwoValues ==
    /\ Instrumental
    /\ \E l \in 1..Len(writer.raw.arrangements) :
           \E k \in 1..Len(RawChords(l)), s \in 0..5 :
               LET note == RawChords(l)[k]
                   b == writer.raw.chords[note.chord_id + 1].fingers[s + 1]
               IN /\ note.chord_id < Len(writer.raw.chords)
                  /\ b \in 128..254
                  /\ Attribute(SavedTemplates[note.chord_id + 1], FingerN[s + 1]) = b - 256
                  /\ Len(ChordNoteOf(SavedChords(l)[k], s)) = 1
                  /\ Attribute(ChordNoteOf(SavedChords(l)[k], s)[1], "leftHand") = b

(***************************************************************************)
(* The toc_length of the header.                                           *)
(***************************************************************************)
\* the messages of the TOC structural faults ReadToc knows
TocFaults ==
    {"Invalid TOC entry size", "TOC data truncated while reading entry",
     "TOC data truncated while reading length/offset"}

\* the last call was an Open that read, from the file, a header of the right
\* magic and version whose toc_length is below 32
OpenedShortToc ==
    /\ ret.op = "Open"
    /\ ~ret.pre.is_open
    /\ ret.msg # "Failed to open file"
    /\ ReadHeader(NewStream, disk, Header0).exc = "none"
    /\ ReadHeader(NewStream, disk, Header0).h.toc_length < 32

\* C30: Open rejects a header whose toc_length is smaller than 32 with a TOC
\* structural error: toc_length - 32 is never evaluated as a wrapped unsigned
\* 32-bit value used as a buffer size or as a read length.
C30_TocLength ==
    OpenedShortToc => ret.exc = "PsarcException" /\ ret.msg \in TocFaults

\* what the code does keep of C30: the Open fails and the archive stays closed
ShortTocStaysClosed == OpenedShortToc => ret.exc # "none" /\ ~m_is_open

\* the buffer of 2^32 + toc_length - 32 bytes was allocated and the read of
\* as many bytes ended at the end of the file
WrappedReadLength ==
    /\ OpenedShortToc
    /\ SubU32(m_header.toc_length, 32)[1] = 65535
    /\ ret.exc = "PsarcException"
    /\ ret.msg = "Unexpected end of file"
    /\ m_file.eof /\ m_file.pos = Len(disk)

\* the allocation of the buffer of 2^32 + toc_length - 32 bytes failed
WrappedBufferSize ==
    /\ OpenedShortToc
    /\ SubU32(m_header.toc_length, 32)[1] = 65535
    /\ ret.exc = "std::bad_alloc"

====
